---- MODULE Spec2Model ----
(***************************************************************************)
(* cv-editor: the PDF privacy redaction server.                            *)
(*                                                                         *)
(* The model follows the source: the pattern engine (utils/patterns), the  *)
(* extractor and the redactor (services/pdfExtractor.js holds both), the   *)
(* pre-flight check (middleware/pdfValidator), the error categoriser       *)
(* (middleware/errorHandler.js), the image converter                       *)
(* (services/pdfToImage.js) and the request handlers                       *)
(* (controllers/editorController.js and its PDF-returning variant).        *)
(*                                                                         *)
(* A text is a sequence of one-character strings.  The document libraries  *)
(* (pdf-lib, pdfjs, qpdf, pdftoppm) and the file system are the            *)
(* environment: each call returns or throws, chosen nondeterministically.  *)
(***************************************************************************)
EXTENDS Integers, Sequences, FiniteSets, TLC

\* ------------------------------------------------------------------ bounds
MaxPages == 2       \* pages of an uploaded document
MaxClock == 1       \* values Date.now() can take: 0..MaxClock
NumReqs == 2        \* requests in flight in the concurrent specification
MaxTokens == 2      \* tokens a text handed to the pattern functions is made of
MaxSets == 2        \* PageRedactionSets handed to getRedactionStats directly
MaxItems == 2       \* items of one such PageRedactionSet

\* ------------------------------------------------------- pattern engine
Digit == {"0", "1", "2", "3", "4", "5", "6", "7", "8", "9"}
Lower == {"a", "b", "c", "d", "e", "f", "g", "h", "i", "j", "k", "l", "m",
          "n", "o", "p", "q", "r", "s", "t", "u", "v", "w", "x", "y", "z"}
Upper == {"A", "B", "C", "D", "E", "F", "G", "H", "I", "J", "K", "L", "M",
          "N", "O", "P", "Q", "R", "S", "T", "U", "V", "W", "X", "Y", "Z"}
\* \w, the characters between which \b finds no boundary
WordChar == Digit \cup Lower \cup Upper \cup {"_"}
\* \s
WhiteSpace == {" ", "\t", "\n"}
\* [\s.-]
Sep == WhiteSpace \cup {".", "-"}

\* One element of a regular expression: a character class with a greedy
\* quantifier {lo,hi} (hi < 0: no upper limit), or the assertion \b.
Cls(set, lo, hi) == [set |-> set, lo |-> lo, hi |-> hi, b |-> FALSE]
WordB == [set |-> {}, lo |-> 0, hi |-> 0, b |-> TRUE]

EMAIL_PATTERN ==
  << WordB,
     Cls(Upper \cup Lower \cup Digit \cup {".", "_", "%", "+", "-"}, 1, -1),
     Cls({"@"}, 1, 1),
     Cls(Upper \cup Lower \cup Digit \cup {".", "-"}, 1, -1),
     Cls({"."}, 1, 1),
     Cls(Upper \cup Lower \cup {"|"}, 2, -1),
     WordB >>

PHONE_PATTERNS ==
  << \* /\+\d{1,3}[\s.-]?\(?\d{1,4}\)?[\s.-]?\d{1,4}[\s.-]?\d{1,4}[\s.-]?\d{0,4}/g
     << Cls({"+"}, 1, 1), Cls(Digit, 1, 3), Cls(Sep, 0, 1), Cls({"("}, 0, 1),
        Cls(Digit, 1, 4), Cls({")"}, 0, 1), Cls(Sep, 0, 1), Cls(Digit, 1, 4),
        Cls(Sep, 0, 1), Cls(Digit, 1, 4), Cls(Sep, 0, 1), Cls(Digit, 0, 4) >>,
     \* /\(?\d{2,4}\)?[\s.-]?\d{3,4}[\s.-]?\d{3,4}/g
     << Cls({"("}, 0, 1), Cls(Digit, 2, 4), Cls({")"}, 0, 1), Cls(Sep, 0, 1),
        Cls(Digit, 3, 4), Cls(Sep, 0, 1), Cls(Digit, 3, 4) >>,
     \* /\d{3}[\s.-]\d{3}[\s.-]\d{4}/g
     << Cls(Digit, 3, 3), Cls(Sep, 1, 1), Cls(Digit, 3, 3), Cls(Sep, 1, 1),
        Cls(Digit, 4, 4) >>,
     \* /\b00\s?\d{1,3}[\s.-]?\d{1,4}[\s.-]?\d{1,4}[\s.-]?\d{1,4}\b/g
     << WordB, Cls({"0"}, 2, 2), Cls(WhiteSpace, 0, 1), Cls(Digit, 1, 3),
        Cls(Sep, 0, 1), Cls(Digit, 1, 4), Cls(Sep, 0, 1), Cls(Digit, 1, 4),
        Cls(Sep, 0, 1), Cls(Digit, 1, 4), WordB >>,
     \* /\b\d{10,15}\b/g
     << WordB, Cls(Digit, 10, 15), WordB >> >>

RECURSIVE RunLen(_, _, _, _)
\* How many characters of text from index pos on lie in set, at most cap.
RunLen(text, pos, set, cap) ==
  IF cap = 0 \/ pos > Len(text) THEN 0
  ELSE IF text[pos] \notin set THEN 0
  ELSE 1 + RunLen(text, pos + 1, set, cap - 1)

IsWordAt(text, i) == i >= 1 /\ i <= Len(text) /\ text[i] \in WordChar
\* \b at the gap before index pos
AtBoundary(text, pos) == IsWordAt(text, pos - 1) # IsWordAt(text, pos)

RECURSIVE MatchHere(_, _, _, _)
RECURSIVE TryCount(_, _, _, _, _)
\* The backtracking matcher: elements k.. of re against text from index pos.
\* The index after the match, or 0 when there is none.
MatchHere(re, k, text, pos) ==
  IF k > Len(re) THEN pos
  ELSE IF re[k].b
    THEN IF AtBoundary(text, pos) THEN MatchHere(re, k + 1, text, pos) ELSE 0
    ELSE TryCount(re, k, text, pos,
                  RunLen(text, pos, re[k].set,
                         IF re[k].hi < 0 THEN Len(text) ELSE re[k].hi))
\* Greedy: the longest repetition first, then shorter ones.
TryCount(re, k, text, pos, c) ==
  IF c < re[k].lo THEN 0
  ELSE LET r == MatchHere(re, k + 1, text, pos + c)
       IN IF r # 0 THEN r ELSE TryCount(re, k, text, pos, c - 1)

RECURSIVE ExecFrom(_, _, _)
\* RegExp.prototype.exec from lastIndex: <<start, end>> of the leftmost
\* match, or <<>>.
ExecFrom(re, text, lastIndex) ==
  IF lastIndex > Len(text) + 1 THEN <<>>
  ELSE LET e == MatchHere(re, 1, text, lastIndex)
       IN IF e # 0 THEN <<lastIndex, e>> ELSE ExecFrom(re, text, lastIndex + 1)

\* pattern.test(text) of a pattern without the g flag
Test(re, text) == ExecFrom(re, text, 1) # <<>>

RECURSIVE MatchAllFrom(_, _, _)
MatchAllFrom(re, text, lastIndex) ==
  LET m == ExecFrom(re, text, lastIndex)
  IN IF m = <<>> THEN <<>>
     ELSE <<SubSeq(text, m[1], m[2] - 1)>>
          \o MatchAllFrom(re, text, IF m[2] = m[1] THEN m[2] + 1 ELSE m[2])
\* text.match(pattern) of a pattern with the g flag: every match, from
\* lastIndex 0 (String.prototype.match resets it); <<>> stands for null.
MatchAll(re, text) == MatchAllFrom(re, text, 1)

isEmail(text) == Test(EMAIL_PATTERN, text)
isPhone(text) == \E i \in 1..Len(PHONE_PATTERNS) : Test(PHONE_PATTERNS[i], text)
findEmails(text) == MatchAll(EMAIL_PATTERN, text)

\* matches.forEach without seenMatches: every match is pushed.
AddAll(allMatches, matches) == allMatches \o matches
RECURSIVE AddUnseen(_, _)
\* matches.forEach: push the match unless seenMatches has it
AddUnseen(allMatches, matches) ==
  IF matches = <<>> THEN allMatches
  ELSE AddUnseen(IF \E j \in 1..Len(allMatches) : allMatches[j] = Head(matches)
                   THEN allMatches
                   ELSE Append(allMatches, Head(matches)),
                 Tail(matches))
RECURSIVE FindPhonesBackwards(_, _, _)
\* PHONE_PATTERNS.forEach taken from the last pattern to the first.
FindPhonesBackwards(text, i, allMatches) ==
  IF i > Len(PHONE_PATTERNS) THEN allMatches
  ELSE AddUnseen(FindPhonesBackwards(text, i + 1, allMatches),
                 MatchAll(PHONE_PATTERNS[i], text))
RECURSIVE FindPhonesFrom(_, _, _)
FindPhonesFrom(text, i, allMatches) ==
  IF i > Len(PHONE_PATTERNS) THEN allMatches
  ELSE FindPhonesFrom(text, i + 1,
                      AddUnseen(allMatches, MatchAll(PHONE_PATTERNS[i], text)))
findPhones(text) == FindPhonesFrom(text, 1, <<>>)
containsPII(text) == isEmail(text) \/ isPhone(text)

\* The same functions as calls on the module's regular expression objects.
\* EMAIL_PATTERN and the PHONE_PATTERNS are created once, with the g flag, and
\* carry a lastIndex from call to call; li[1] is EMAIL_PATTERN's, li[i + 1]
\* that of PHONE_PATTERNS[i].  A call yields its value and the lastIndex it
\* leaves.
FreshIndex == [i \in 1..(1 + Len(PHONE_PATTERNS)) |-> 0]
\* A test on the shared EMAIL_PATTERN: with the g flag, test starts at
\* lastIndex and leaves the end of the match there.
isEmailCallShared(text, li) ==
  LET m == ExecFrom(EMAIL_PATTERN, text, li[1] + 1)
  IN [value |-> m # <<>>,
      lastIndex |-> [li EXCEPT ![1] = IF m = <<>> THEN 0 ELSE m[2] - 1]]
\* isEmail and isPhone test literals of their own, created by the call.
isEmailCall(text, li) == [value |-> isEmail(text), lastIndex |-> li]
isPhoneCall(text, li) == [value |-> isPhone(text), lastIndex |-> li]
\* text.match(EMAIL_PATTERN): match sets lastIndex to 0, and the exec that
\* ends its loop leaves it 0.
findEmailsCall(text, li) ==
  [value |-> findEmails(text), lastIndex |-> [li EXCEPT ![1] = 0]]
findPhonesCall(text, li) ==
  [value |-> findPhones(text),
   lastIndex |-> [i \in DOMAIN li |-> IF i = 1 THEN li[i] ELSE 0]]
\* isEmail(text) || isPhone(text)
containsPIICall(text, li) ==
  LET e == isEmailCall(text, li)
  IN IF e.value THEN e ELSE isPhoneCall(text, e.lastIndex)

\* ------------------------------------------------------------ documents
RECURSIVE TrimLeft(_)
TrimLeft(s) ==
  IF s # <<>> /\ Head(s) \in WhiteSpace THEN TrimLeft(Tail(s)) ELSE s
RECURSIVE TrimRight(_)
TrimRight(s) ==
  IF s # <<>> /\ s[Len(s)] \in WhiteSpace
    THEN TrimRight(SubSeq(s, 1, Len(s) - 1)) ELSE s
\* String.prototype.trim
Trim(s) == TrimRight(TrimLeft(s))

\* Text runs as pdfjs reports them: str, transform[4], transform[5], width,
\* height.
Run(str, tx, ty, w, h) == [str |-> str, tx |-> tx, ty |-> ty, width |-> w, height |-> h]
RunPlain == Run(<<"X">>, 5, 35, 1, 2)
RunBlank == Run(<<" ", " ">>, 5, 30, 2, 2)
RunEmail == Run(<<"a", "@", "b", ".", "c", "o">>, 5, 25, 6, 2)
RunPhone == Run(<<"5", "5", "5", "-", "1", "2", "3", "-", "4", "5", "6", "7">>, 5, 20, 12, 2)
RunBoth == Run(<<" ", "a", "@", "b", ".", "c", "o", " ", "5", "5", "5", "-", "1", "2", "3", "-",
                 "4", "5", "6", "7", " ">>, 5, 15, 21, 3)

\* A page of an uploaded document: its size and its text runs; each run is
\* one show-text operator of the page's content stream.
Page(w, h, runs) == [width |-> w, height |-> h, runs |-> runs]
PageKinds ==
  { Page(60, 40, <<RunPlain, RunBlank>>),
    Page(60, 40, <<RunEmail>>),
    Page(60, 50, <<RunPlain, RunPhone>>),
    Page(60, 40, <<RunBoth, RunEmail>>) }

RECURSIVE SeqsUpTo(_, _)
\* the sequences over S of length at most n
SeqsUpTo(S, n) ==
  IF n = 0 THEN {<<>>}
  ELSE LET shorter == SeqsUpTo(S, n - 1)
       IN shorter \cup {Append(s, x) : s \in shorter, x \in S}

\* --------------------------------------------------------- extraction
\* A forEach body that looks for phones before emails.
ItemMatchesPhonesFirst(item, pageHeight) ==
  LET text == Trim(item.str)
      emails == findEmails(text)
      phones == findPhones(text)
      match(t, type) == [text |-> t, x |-> item.tx, y |-> pageHeight - item.ty - item.height,
                         width |-> item.width, height |-> item.height, type |-> type]
  IN IF text = <<>> THEN <<>>
     ELSE IF ~containsPII(text) THEN <<>>
     ELSE [i \in 1..Len(phones) |-> match(phones[i], "phone")]
          \o [i \in 1..Len(emails) |-> match(emails[i], "email")]
\* The matches of one text item (the body of textContent.items.forEach).
ItemMatches(item, pageHeight) ==
  LET text == Trim(item.str)
      x == item.tx
      y == pageHeight - item.ty
      emails == findEmails(text)
      phones == findPhones(text)
      match(t, type) == [text |-> t, x |-> x, y |-> y - item.height,
                         width |-> item.width, height |-> item.height, type |-> type]
  IN IF text = <<>> THEN <<>>
     ELSE IF ~containsPII(text) THEN <<>>
     ELSE [i \in 1..Len(emails) |-> match(emails[i], "email")]
          \o [i \in 1..Len(phones) |-> match(phones[i], "phone")]

RECURSIVE PageItemsFrom(_, _, _)
PageItemsFrom(runs, i, pageHeight) ==
  IF i > Len(runs) THEN <<>>
  ELSE ItemMatches(runs[i], pageHeight) \o PageItemsFrom(runs, i + 1, pageHeight)

\* A page loop that pushes a PageRedactionSet for every page, matches or not.
PushPageAlways(piiItems, pageNum, page) ==
  Append(piiItems, [pageNumber |-> pageNum,
                    items |-> PageItemsFrom(page.runs, 1, page.height),
                    pageHeight |-> page.height, pageWidth |-> page.width])
\* A page loop that numbers the pushed sets 1, 2, ... instead of by page.
PushPageCompact(piiItems, pageNum, page) ==
  LET pageItems == PageItemsFrom(page.runs, 1, page.height)
  IN IF Len(pageItems) > 0
       THEN Append(piiItems, [pageNumber |-> Len(piiItems) + 1, items |-> pageItems,
                              pageHeight |-> page.height, pageWidth |-> page.width])
       ELSE piiItems
\* A page loop that pushes one PageRedactionSet per item instead of one per
\* page: page numbers would repeat in the collection.
PushPagePerItem(piiItems, pageNum, page) ==
  LET pageItems == PageItemsFrom(page.runs, 1, page.height)
  IN piiItems \o [i \in 1..Len(pageItems) |->
                    [pageNumber |-> pageNum, items |-> <<pageItems[i]>>,
                     pageHeight |-> page.height, pageWidth |-> page.width]]

\* One pass of the page loop: the PageRedactionSet of page pageNum is pushed
\* when the page has items.
PushPage(piiItems, pageNum, page) ==
  LET pageItems == PageItemsFrom(page.runs, 1, page.height)
  IN IF Len(pageItems) > 0
       THEN Append(piiItems, [pageNumber |-> pageNum, items |-> pageItems,
                              pageHeight |-> page.height, pageWidth |-> page.width])
       ELSE piiItems

RECURSIVE ExtractFrom(_, _, _)
ExtractFrom(pages, pageNum, piiItems) ==
  IF pageNum > Len(pages) THEN piiItems
  ELSE ExtractFrom(pages, pageNum + 1, PushPage(piiItems, pageNum, pages[pageNum]))
\* extractPIICoordinates on a document pdfjs could open
extractPIICoordinates(pages) == ExtractFrom(pages, 1, <<>>)

\* ---------------------------------------------------------- statistics
RECURSIVE CountType(_, _)
CountType(items, type) ==
  IF items = <<>> THEN 0
  ELSE (IF Head(items).type = type THEN 1 ELSE 0) + CountType(Tail(items), type)
RECURSIVE SumOver(_, _)
SumOver(piiItems, type) ==
  IF piiItems = <<>> THEN 0
  ELSE (IF type = "any" THEN Len(Head(piiItems).items)
        ELSE CountType(Head(piiItems).items, type))
       + SumOver(Tail(piiItems), type)
\* Statistics whose total counts the PageRedactionSets, not their items.
getRedactionStatsPerSet(piiItems) ==
  [totalRedactions |-> Len(piiItems),
   emails |-> SumOver(piiItems, "email"),
   phones |-> SumOver(piiItems, "phone"),
   pagesAffected |-> Len(piiItems)]
getRedactionStats(piiItems) ==
  [totalRedactions |-> SumOver(piiItems, "any"),
   emails |-> SumOver(piiItems, "email"),
   phones |-> SumOver(piiItems, "phone"),
   pagesAffected |-> Len(piiItems)]

\* ------------------------------------------------------- error messages
\* An error message is the sequence of the pieces it was concatenated from.
\* The handlers look for fixed substrings in messages; KeywordsIn lists, for
\* every piece, the searched substrings it contains (case-sensitive: cs, in
\* the lower-cased message: lc).
MsgExtract == "Failed to extract text from PDF: "
MsgRedact == "Failed to redact PDF: "
MsgProtected == "This PDF is encrypted/password-protected and cannot be processed. Please remove the password protection and try again."
MsgNoInputPages == "Input PDF has no pages"
MsgSave == "Failed to save redacted PDF after trying multiple strategies: "
MsgTooSmall == "Output PDF is too small and likely corrupted"
MsgValidation == "Output PDF validation failed: "
MsgNoOutputPages == "Output PDF has no pages"
MsgDimensions == "Page N has invalid dimensions"
MsgConvert == "Failed to convert PDF to images: "
\* messages of the libraries and of the file system
LibEncrypted == "Input document to PDFDocument.load is encrypted."
LibParse == "Failed to parse PDF document"
LibPdfjs == "Invalid PDF structure."
LibSave == "Expected instance of PDFDict, but got instance of undefined"
LibImport == "Cannot find package 'node-qpdf2'"
LibIO == "ENOENT: no such file or directory"
LibCommand == "Command failed"

KeywordsIn(piece) ==
  CASE piece = MsgExtract -> [cs |-> {}, lc |-> {"failed to extract"}]
    [] piece = MsgProtected -> [cs |-> {"encrypted", "password"},
                                lc |-> {"encrypted", "password-protected"}]
    [] piece = MsgTooSmall -> [cs |-> {}, lc |-> {"corrupted"}]
    [] piece = LibEncrypted -> [cs |-> {"encrypted"}, lc |-> {"encrypted"}]
    [] piece = LibPdfjs -> [cs |-> {}, lc |-> {"invalid pdf"}]
    [] OTHER -> [cs |-> {}, lc |-> {}]
\* message.includes(keyword)
Includes(message, keyword) ==
  \E i \in 1..Len(message) : keyword \in KeywordsIn(message[i]).cs
\* message.toLowerCase().includes(keyword)
IncludesLower(message, keyword) ==
  \E i \in 1..Len(message) : keyword \in KeywordsIn(message[i]).lc

\* An error categoriser with a single category.
getUserFriendlyErrorPlain(message) ==
  [error |-> "Internal server error",
   message |-> <<"An error occurred while processing your request">>,
   technicalDetails |-> message]
FriendlyProtected == "This PDF is encrypted or password-protected and cannot be processed. Please remove the password protection using your PDF viewer (File > Properties > Security) or use a PDF unlocking tool, then try again."
getUserFriendlyError(message) ==
  IF IncludesLower(message, "encrypted") \/ IncludesLower(message, "password-protected")
    THEN [error |-> "PDF is Password Protected", message |-> <<FriendlyProtected>>,
          technicalDetails |-> message]
  ELSE IF IncludesLower(message, "invalid pdf") \/ IncludesLower(message, "corrupted")
    THEN [error |-> "Invalid PDF File",
          message |-> <<"The uploaded file appears to be corrupted or is not a valid PDF. Please try a different file.">>,
          technicalDetails |-> message]
  ELSE IF IncludesLower(message, "not a pdf")
    THEN [error |-> "Not a PDF File",
          message |-> <<"The uploaded file is not a valid PDF document. Please upload a PDF file.">>,
          technicalDetails |-> message]
  ELSE IF IncludesLower(message, "failed to extract")
    THEN [error |-> "Cannot Read PDF",
          message |-> <<"Unable to extract text from this PDF. It may be image-based (scanned) or use an unsupported format.">>,
          technicalDetails |-> message]
  ELSE [error |-> "Processing Error",
        message |-> <<"An error occurred while processing your PDF. Please try again or contact support if the issue persists.">>,
        technicalDetails |-> message]

\* -------------------------------------------------------------- uploads
\* Output smaller than this is taken to be corrupt.
MinOutputBytes == 200
\* padding of a redaction rectangle
padding == 2

\* What pdf-lib's save yields for a document: how many of the strategies
\* fail, in order, and the shape and size of the bytes the first successful
\* one emits.  "same" is the faithful serialisation.
Shapes == {"same", "unloadable", "nopages", "dropped", "zerodim"}
Nominal == [fails |-> 0, shape |-> "same", len |-> MinOutputBytes]
SaveBehaviours ==
  [fails : {0}, shape : Shapes, len : {MinOutputBytes - 1, MinOutputBytes}]
  \cup [fails : 1..3, shape : {"same"}, len : {MinOutputBytes}]

Docs == SeqsUpTo(PageKinds, MaxPages)
\* the documents of the requests in flight together, and of the requests
\* sent through an express app
ConcDocs == { <<Page(60, 40, <<RunEmail>>)>>,
              <<Page(60, 40, <<RunEmail>>), Page(60, 50, <<RunPlain, RunPhone>>)>> }
HttpDocs == { <<Page(60, 40, <<RunPlain>>)>> }

\* An upload (req.file.buffer) of request id: the document and what the
\* libraries do with these bytes.  size: fewer than 5 bytes or not; header:
\* begins with %PDF; strict: PDFDocument.load with ignoreEncryption false;
\* tolerant: load with ignoreEncryption true and copyPages; pdfjs:
\* pdfjsLib.getDocument; piiItems: what the page loop of
\* extractPIICoordinates collects from these bytes once pdfjs has opened them.
Upload(id, size, header, strict, tolerant, pdfjs, pages, saved) ==
  [id |-> id, size |-> size, header |-> header, strict |-> strict,
   tolerant |-> tolerant, pdfjs |-> pdfjs, pages |-> pages, saved |-> saved,
   piiItems |-> extractPIICoordinates(pages)]
Uploads(id) ==
  { Upload(id, "tiny", h, "corrupt", FALSE, FALSE, <<>>, Nominal) : h \in BOOLEAN }
  \cup { Upload(id, "ok", FALSE, "corrupt", FALSE, FALSE, <<>>, Nominal) }
  \cup { Upload(id, "ok", TRUE, "corrupt", FALSE, FALSE, <<>>, Nominal) }
  \cup { Upload(id, "ok", TRUE, "corrupt", FALSE, TRUE, d, Nominal) : d \in Docs }
  \cup { Upload(id, "ok", TRUE, "encrypted", t, j, d, Nominal) :
           t \in BOOLEAN, j \in BOOLEAN, d \in Docs }
  \cup { Upload(id, "ok", TRUE, "ok", TRUE, FALSE, d, Nominal) : d \in Docs }
  \cup { Upload(id, "ok", TRUE, "ok", TRUE, TRUE, d, s) : d \in Docs, s \in SaveBehaviours }

\* the message PDFDocument.load throws on these bytes
LoadError(file) == IF file.strict = "encrypted" THEN <<LibEncrypted>> ELSE <<LibParse>>

\* -------------------------------------------------------- pre-flight
\* A pre-flight check that reports nothing.
checkPDFEncryptionNone(file) == [isEncrypted |-> FALSE, error |-> <<>>]
checkPDFEncryption(file) ==
  IF file.size = "tiny"
    THEN [isEncrypted |-> FALSE, error |-> <<"File too small to be a valid PDF">>]
  ELSE IF ~file.header
    THEN [isEncrypted |-> FALSE, error |-> <<"Not a valid PDF file (missing PDF header)">>]
  ELSE IF file.strict = "ok"
    THEN [isEncrypted |-> FALSE, error |-> <<>>]
  ELSE IF \/ Includes(LoadError(file), "encrypted")
          \/ Includes(LoadError(file), "password")
          \/ Includes(LoadError(file), "Encrypt")
    THEN [isEncrypted |-> TRUE,
          error |-> <<"This PDF is encrypted or password-protected. Please remove the password protection using your PDF viewer (File > Properties > Security) or use a PDF unlocking tool, then try again.">>]
  ELSE [isEncrypted |-> FALSE,
        error |-> <<"Invalid or corrupted PDF file: ">> \o LoadError(file)]

\* ------------------------------------------------ the working document
\* A page of a pdf-lib document: its size, the text operands of its
\* content stream's show-text operators, and the rectangles drawn on it.
WorkingDoc(pages) ==
  [i \in 1..Len(pages) |->
     [width |-> pages[i].width, height |-> pages[i].height,
      ops |-> [j \in 1..Len(pages[i].runs) |-> pages[i].runs[j].str],
      rects |-> <<>>]]

\* A rectangle placed at the item's top-left y without flipping it back.
RectangleUnflipped(item, pageHeight) ==
  [x |-> item.x - padding,
   y |-> item.y - padding,
   width |-> item.width + padding * 2,
   height |-> item.height + padding * 2]
\* page.drawRectangle for one item
Rectangle(item, pageHeight) ==
  [x |-> item.x - padding,
   y |-> pageHeight - item.y - item.height - padding,
   width |-> item.width + padding * 2,
   height |-> item.height + padding * 2]
\* An inner loop that covers a page's matches with a single rectangle.
DrawItemsOnce(page, items) ==
  [page EXCEPT !.rects = Append(@, Rectangle(items[1], page.height))]
\* the inner loop: one rectangle per item of the page's PageRedactionSet
DrawItems(page, items) ==
  [page EXCEPT !.rects = @ \o [i \in 1..Len(items) |-> Rectangle(items[i], page.height)]]
RECURSIVE DrawFrom(_, _, _)
\* the outer loop over piiItems; the page is pdfDoc.getPage(pageNumber - 1)
DrawFrom(doc, piiItems, k) ==
  IF k > Len(piiItems) THEN doc
  ELSE LET pageIndex == piiItems[k].pageNumber - 1
       IN DrawFrom([doc EXCEPT ![pageIndex + 1] = DrawItems(@, piiItems[k].items)],
                   piiItems, k + 1)
\* pdfDoc.getPage throws when the index is out of range
DrawThrows(doc, piiItems) ==
  \E k \in 1..Len(piiItems) : piiItems[k].pageNumber > Len(doc)

\* The bytes the first successful save emits for the working document.
SavedBytes(file, doc) ==
  [src |-> file.id,
   len |-> file.saved.len,
   loadable |-> file.saved.shape # "unloadable",
   locked |-> FALSE,
   pages |-> CASE file.saved.shape = "nopages" -> <<>>
               [] file.saved.shape = "dropped" -> SubSeq(doc, 1, Len(doc) - 1)
               [] file.saved.shape = "zerodim" -> [doc EXCEPT ![Len(doc)].height = 0]
               [] OTHER -> doc]

\* ---------------------------------------------------------- validation
RECURSIVE FirstBadPage(_, _)
\* the dimension loop: the first page with a zero width or height, or 0
FirstBadPage(pages, i) ==
  IF i > Len(pages) THEN 0
  ELSE IF pages[i].width = 0 \/ pages[i].height = 0 THEN i
  ELSE FirstBadPage(pages, i + 1)

\* Output checks that reject a page count other than the original.
ValidateOutputStrict(outputBuffer, originalPageCount) ==
  IF outputBuffer.len < MinOutputBytes
    THEN [checks |-> <<"size">>, error |-> <<MsgTooSmall>>, warned |-> FALSE]
  ELSE IF ~outputBuffer.loadable
    THEN [checks |-> <<"size", "load">>, error |-> <<MsgValidation, LibParse>>,
          warned |-> FALSE]
  ELSE IF Len(outputBuffer.pages) = 0
    THEN [checks |-> <<"size", "load", "pages">>,
          error |-> <<MsgValidation, MsgNoOutputPages>>, warned |-> FALSE]
  ELSE IF Len(outputBuffer.pages) # originalPageCount
    THEN [checks |-> <<"size", "load", "pages">>,
          error |-> <<MsgValidation, "Page count mismatch">>, warned |-> TRUE]
  ELSE IF FirstBadPage(outputBuffer.pages, 1) # 0
    THEN [checks |-> <<"size", "load", "pages", "dims">>,
          error |-> <<MsgValidation, MsgDimensions>>, warned |-> FALSE]
  ELSE [checks |-> <<"size", "load", "pages", "dims">>, error |-> <<>>,
        warned |-> FALSE]
\* Output checks that never log the page-count warning.
ValidateOutputSilent(outputBuffer, originalPageCount) ==
  IF outputBuffer.len < MinOutputBytes
    THEN [checks |-> <<"size">>, error |-> <<MsgTooSmall>>, warned |-> FALSE]
  ELSE IF ~outputBuffer.loadable
    THEN [checks |-> <<"size", "load">>, error |-> <<MsgValidation, LibParse>>,
          warned |-> FALSE]
  ELSE IF Len(outputBuffer.pages) = 0
    THEN [checks |-> <<"size", "load", "pages">>,
          error |-> <<MsgValidation, MsgNoOutputPages>>, warned |-> FALSE]
  ELSE IF FirstBadPage(outputBuffer.pages, 1) # 0
    THEN [checks |-> <<"size", "load", "pages", "dims">>,
          error |-> <<MsgValidation, MsgDimensions>>, warned |-> FALSE]
  ELSE [checks |-> <<"size", "load", "pages", "dims">>, error |-> <<>>,
        warned |-> FALSE]
\* Output checks without the dimension loop.
ValidateOutputNoDims(outputBuffer, originalPageCount) ==
  IF outputBuffer.len < MinOutputBytes
    THEN [checks |-> <<"size">>, error |-> <<MsgTooSmall>>, warned |-> FALSE]
  ELSE IF ~outputBuffer.loadable
    THEN [checks |-> <<"size", "load">>, error |-> <<MsgValidation, LibParse>>,
          warned |-> FALSE]
  ELSE IF Len(outputBuffer.pages) = 0
    THEN [checks |-> <<"size", "load", "pages">>,
          error |-> <<MsgValidation, MsgNoOutputPages>>, warned |-> FALSE]
  ELSE [checks |-> <<"size", "load", "pages", "dims">>, error |-> <<>>,
        warned |-> Len(outputBuffer.pages) # originalPageCount]

\* The output checks of redactPDF: the checks made, in order, the message
\* thrown (<<>>: none) and whether the page-count warning was logged.
ValidateOutput(outputBuffer, originalPageCount) ==
  IF outputBuffer.len < MinOutputBytes
    THEN [checks |-> <<"size">>, error |-> <<MsgTooSmall>>, warned |-> FALSE]
  ELSE IF ~outputBuffer.loadable
    THEN [checks |-> <<"size", "load">>, error |-> <<MsgValidation, LibParse>>,
          warned |-> FALSE]
  ELSE IF Len(outputBuffer.pages) = 0
    THEN [checks |-> <<"size", "load", "pages">>,
          error |-> <<MsgValidation, MsgNoOutputPages>>, warned |-> FALSE]
  ELSE IF FirstBadPage(outputBuffer.pages, 1) # 0
    THEN [checks |-> <<"size", "load", "pages", "dims">>,
          error |-> <<MsgValidation, MsgDimensions>>,
          warned |-> Len(outputBuffer.pages) # originalPageCount]
  ELSE [checks |-> <<"size", "load", "pages", "dims">>, error |-> <<>>,
        warned |-> Len(outputBuffer.pages) # originalPageCount]

\* ---------------------------------------------------------------- state
VARIABLES
  now,       \* the clock Date.now() reads
  disk,      \* os.tmpdir(): the files in it, by path
  req,       \* per request: the handler's and the services' local variables
  statsIn,   \* argument of a direct call of getRedactionStats
  statsOut,  \* its result (<<>>: not called yet)
  lastIndex, \* lastIndex of EMAIL_PATTERN and of the five PHONE_PATTERNS
  called     \* the last call of a pattern function: <<>> or <<[fn, text, value]>>
vars == <<now, disk, req, statsIn, statsOut, lastIndex, called>>

Reqs == 1..NumReqs
\* which code serves a request: the image-returning redact handler
\* (editorController.js), the PDF-returning redact handler, the analyze
\* handler, or a caller of extractPIICoordinates and redactPDF themselves
Handlers == {"redactImages", "redactPdf", "analyze"}
RedactHandlers == {"redactImages", "redactPdf"}

NewRequest(entry, file, skip) ==
  [entry |-> entry,
   file |-> file,                 \* req.file: <<>> or <<upload>>
   pc |-> IF entry = "none" THEN "idle"
          ELSE IF entry = "direct" THEN "extract" ELSE "start",
   extracted |-> FALSE,           \* extractPIICoordinates has returned
   piiItems |-> <<>>,
   stats |-> <<>>,
   skipEncryption |-> skip,       \* options.skipEncryption
   pdfDoc |-> <<>>,
   originalPageCount |-> 0,
   strategy |-> 0,                \* save strategies tried so far
   redactedPdfBytes |-> <<>>,
   outputBuffer |-> <<>>,
   lock |-> "none",               \* applyPDFEncryption: none, running, ok, failed
   encryptedBuffer |-> <<>>,
   inputPath |-> <<>>,
   outputPath |-> <<>>,
   checks |-> <<>>,               \* output checks made, in order
   warnings |-> <<>>,             \* console.warn of redactPDF
   ret |-> "none",                \* redactPDF: none, returned, threw
   error |-> <<>>,                \* the exception in flight
   tempPdfPath |-> <<>>,
   outputPrefix |-> <<>>,
   outputFiles |-> <<>>,
   i |-> 0,
   images |-> <<>>,
   res |-> <<>>,                  \* responses sent
   calls |-> <<>>,                \* operations invoked, in order
   app |-> "none",                \* the express app in front of the handler
   route |-> "none",              \* router (/editor, /api/editor) or root
   nodeEnv |-> <<>>,              \* process.env.NODE_ENV
   body |-> <<>>,                 \* the multipart body: <<>> or <<file part>>
   truncated |-> FALSE,           \* the multipart body ends early
   nextError |-> <<>>]            \* the error handed to next(error)

Idle == NewRequest("none", <<>>, FALSE)

Entries(id) ==
  { NewRequest(e, f, FALSE) :
      e \in Handlers, f \in {<<>>} \cup { <<u>> : u \in Uploads(id) } }
  \cup { NewRequest("direct", <<u>>, s) : u \in Uploads(id), s \in BOOLEAN }

\* One request, any upload.
Init ==
  /\ now = 0
  /\ disk = <<>>
  /\ \E q \in Entries(1) : req = [r \in Reqs |-> IF r = 1 THEN q ELSE Idle]
  /\ statsIn = <<>>
  /\ statsOut = <<>>
  /\ lastIndex = FreshIndex
  /\ called = <<>>

\* ------------------------------------------------------------- helpers
Response(status, error, message) ==
  [status |-> status, error |-> error, message |-> message, stats |-> <<>>,
   found |-> FALSE, details |-> <<>>, pdf |-> <<>>, images |-> <<>>,
   technicalDetails |-> <<>>]
\* A response sent a second time.
RespondTwice(q, response) ==
  [q EXCEPT !.res = @ \o <<response, response>>, !.pc = "done"]
Respond(q, response) == [q EXCEPT !.res = Append(@, response), !.pc = "done"]
Called(q, name) == \E k \in 1..Len(q.calls) : q.calls[k] = name

\* redactPDF's outer catch: the error is wrapped and thrown to the caller.
FailRedact(q, message) ==
  [q EXCEPT !.ret = "threw", !.error = <<MsgRedact>> \o message,
            !.pc = IF q.entry = "direct" THEN "done" ELSE "catch"]
\* redactPDF returns outputBuffer to its caller.
ReturnRedact(q) ==
  [q EXCEPT !.ret = "returned",
            !.pc = CASE q.entry = "redactImages" -> "conv_start"
                     [] q.entry = "redactPdf" -> "send"
                     [] OTHER -> "done"]

\* An unlink that leaves the file where it is.
KeepFile(d, path) == d
WriteFile(d, path, content) ==
  [x \in DOMAIN d \cup {path} |-> IF x = path THEN content ELSE d[x]]
Unlink(d, path) == [x \in DOMAIN d \ {path} |-> d[x]]
Path(kind, t, n) == [kind |-> kind, t |-> t, n |-> n]
\* the values a second Date.now() can give right after the first read now
Later == {t \in {now, now + 1} : t <= MaxClock}

\* --------------------------------------------------------------- clock
Tick ==
  /\ now < MaxClock
  /\ now' = now + 1
  /\ UNCHANGED <<disk, req, statsIn, statsOut, lastIndex, called>>

\* ------------------------------------------------------------ handlers
\* A handler that treats a missing file as an invalid one.
ReceiveRequestUnguarded(r) ==
  LET q == req[r] IN
  /\ q.pc = "start"
  /\ req' = [req EXCEPT ![r] =
       IF q.file = <<>>
         THEN Respond([q EXCEPT !.calls = Append(@, "checkPDFEncryption")],
                      Response(400, "Invalid PDF File", <<"Error checking PDF: ">>))
         ELSE [q EXCEPT !.pc = "check"]]
  /\ UNCHANGED <<now, disk, statsIn, statsOut, lastIndex, called>>

\* if (!req.file) return res.status(400)...
ReceiveRequest(r) ==
  LET q == req[r] IN
  /\ q.pc = "start"
  /\ req' = [req EXCEPT ![r] =
       IF q.file = <<>>
         THEN Respond(q, Response(400, "No PDF file uploaded",
                IF q.entry = "analyze" THEN <<>>
                ELSE <<"Please upload a PDF file using the \"file\" field">>))
         ELSE [q EXCEPT !.pc = "check"]]
  /\ UNCHANGED <<now, disk, statsIn, statsOut, lastIndex, called>>

\* const encryptionCheck = await checkPDFEncryption(req.file.buffer); ...
PreFlight(r) ==
  LET q == req[r]
      encryptionCheck == checkPDFEncryption(q.file[1])
      q1 == [q EXCEPT !.calls = Append(@, "checkPDFEncryption")]
  IN
  /\ q.pc = "check"
  /\ req' = [req EXCEPT ![r] =
       IF encryptionCheck.isEncrypted
         THEN Respond(q1, [Response(400, "PDF is Password Protected", encryptionCheck.error)
                EXCEPT !.technicalDetails =
                  <<"The PDF contains encryption markers that prevent processing">>])
       ELSE IF encryptionCheck.error # <<>>
         THEN Respond(q1, Response(400, "Invalid PDF File", encryptionCheck.error))
       ELSE [q1 EXCEPT !.pc = "extract"]]
  /\ UNCHANGED <<now, disk, statsIn, statsOut, lastIndex, called>>

\* extractPIICoordinates throws: pdfjs cannot open the document.
ExtractFails(r) ==
  LET q == req[r] IN
  /\ q.pc = "extract"
  /\ ~q.file[1].pdfjs
  /\ req' = [req EXCEPT ![r] =
       [q EXCEPT !.calls = Append(@, "extractPIICoordinates"),
                 !.error = <<MsgExtract, LibPdfjs>>,
                 !.pc = IF q.entry = "direct" THEN "done" ELSE "catch"]]
  /\ UNCHANGED <<now, disk, statsIn, statsOut, lastIndex, called>>

\* A handler without the no-match branch.
NeverNoPII(piiItems) == FALSE
\* if (piiItems.length === 0) of the redact handlers
NoPII(piiItems) == Len(piiItems) = 0

\* extractPIICoordinates returns its piiItems.
ExtractReturns(r) ==
  LET q == req[r] IN
  /\ q.pc = "extract"
  /\ q.file[1].pdfjs
  /\ req' = [req EXCEPT ![r] =
       [q EXCEPT !.calls = Append(@, "extractPIICoordinates"),
                 !.extracted = TRUE,
                 !.piiItems = q.file[1].piiItems,
                 !.pc = "extracted"]]
  /\ UNCHANGED <<now, disk, statsIn, statsOut, lastIndex, called>>

\* A redact handler goes on: the no-match response, or the statistics and
\* the call of redactPDF.
RedactOrNot(r) ==
  LET q == req[r]
      zero == [totalRedactions |-> 0, emails |-> 0, phones |-> 0, pagesAffected |-> 0]
  IN
  /\ q.pc = "extracted"
  /\ q.entry \in RedactHandlers
  /\ req' = [req EXCEPT ![r] =
       IF NoPII(q.piiItems)
         THEN Respond(q, [Response(200, "", <<"No personal information found in the document">>)
                EXCEPT !.stats = <<zero>>])
       ELSE [q EXCEPT !.stats = <<getRedactionStats(q.piiItems)>>,
                      !.calls = @ \o <<"getRedactionStats", "redactPDF">>,
                      !.skipEncryption = (q.entry = "redactImages"),
                      !.pc = "load"]]
  /\ UNCHANGED <<now, disk, statsIn, statsOut, lastIndex, called>>

\* A caller of the services passes the items on to redactPDF.
DirectRedact(r) ==
  LET q == req[r] IN
  /\ q.pc = "extracted"
  /\ q.entry = "direct"
  /\ req' = [req EXCEPT ![r] =
       [q EXCEPT !.calls = Append(@, "redactPDF"), !.pc = "load"]]
  /\ UNCHANGED <<now, disk, statsIn, statsOut, lastIndex, called>>

\* The analyze handler goes on: the statistics and the response.
Analyze(r) ==
  LET q == req[r]
      stats == getRedactionStats(q.piiItems)
      details == [k \in 1..Len(q.piiItems) |->
                    [page |-> q.piiItems[k].pageNumber,
                     items |-> [j \in 1..Len(q.piiItems[k].items) |->
                        [type |-> q.piiItems[k].items[j].type,
                         text |-> q.piiItems[k].items[j].text,
                         coordinates |->
                           [x |-> q.piiItems[k].items[j].x,
                            y |-> q.piiItems[k].items[j].y,
                            width |-> q.piiItems[k].items[j].width,
                            height |-> q.piiItems[k].items[j].height]]]]]
  IN
  /\ q.pc = "extracted"
  /\ q.entry = "analyze"
  /\ req' = [req EXCEPT ![r] =
       Respond([q EXCEPT !.calls = Append(@, "getRedactionStats"),
                         !.stats = <<stats>>],
               [Response(200, "", <<>>) EXCEPT !.found = Len(q.piiItems) > 0,
                                                !.stats = <<stats>>,
                                                !.details = details])]
  /\ UNCHANGED <<now, disk, statsIn, statsOut, lastIndex, called>>

\* catch (error) { res.status(500).json(getUserFriendlyError(error)) }
HandlerCatch(r) ==
  LET q == req[r]
      friendlyError == getUserFriendlyError(q.error)
  IN
  /\ q.pc = "catch"
  /\ req' = [req EXCEPT ![r] =
       Respond(q, [Response(500, friendlyError.error, friendlyError.message)
                     EXCEPT !.technicalDetails = friendlyError.technicalDetails])]
  /\ UNCHANGED <<now, disk, statsIn, statsOut, lastIndex, called>>

\* ----------------------------------------------------------- redactPDF
\* After the document is loaded: the page count, the rectangles; the first
\* await that follows is the first save.
AfterLoad(q, doc) ==
  IF Len(doc) = 0 THEN FailRedact(q, <<MsgNoInputPages>>)
  ELSE IF DrawThrows(doc, q.piiItems) THEN FailRedact(q, <<"index out of range">>)
  ELSE [q EXCEPT !.originalPageCount = Len(doc),
                 !.pdfDoc = DrawFrom(doc, q.piiItems, 1),
                 !.pc = "save"]

\* A strict load whose every failure leads to the tolerant load.
StrictLoadAlwaysRecovers(r) ==
  LET q == req[r]
      file == q.file[1]
      q1 == [q EXCEPT !.calls = Append(@, "strictLoad")]
  IN
  /\ q.pc = "load"
  /\ req' = [req EXCEPT ![r] =
       IF file.size = "ok" /\ file.header /\ file.strict = "ok"
         THEN AfterLoad(q1, WorkingDoc(file.pages))
       ELSE [q1 EXCEPT !.warnings = Append(@, "PDF is encrypted"), !.pc = "tolerant"]]
  /\ UNCHANGED <<now, disk, statsIn, statsOut, lastIndex, called>>

\* PDFDocument.load(pdfBuffer, {ignoreEncryption: false})
StrictLoad(r) ==
  LET q == req[r]
      file == q.file[1]
      q1 == [q EXCEPT !.calls = Append(@, "strictLoad")]
  IN
  /\ q.pc = "load"
  /\ req' = [req EXCEPT ![r] =
       IF file.size = "ok" /\ file.header /\ file.strict = "ok"
         THEN AfterLoad(q1, WorkingDoc(file.pages))
       ELSE IF Includes(LoadError(file), "encrypted")
         THEN [q1 EXCEPT !.warnings = Append(@, "PDF is encrypted"), !.pc = "tolerant"]
       ELSE FailRedact(q1, LoadError(file))]
  /\ UNCHANGED <<now, disk, statsIn, statsOut, lastIndex, called>>

\* PDFDocument.load(pdfBuffer, {ignoreEncryption: true}), then every page
\* copied into a new document
TolerantLoad(r) ==
  LET q == req[r]
      file == q.file[1]
      q1 == [q EXCEPT !.calls = Append(@, "tolerantLoad")]
  IN
  /\ q.pc = "tolerant"
  /\ req' = [req EXCEPT ![r] =
       IF file.tolerant
         THEN AfterLoad(q1, WorkingDoc(file.pages))
         ELSE FailRedact(q1, <<MsgProtected>>)]
  /\ UNCHANGED <<now, disk, statsIn, statsOut, lastIndex, called>>

\* A ladder that starts with useObjectStreams true.
SaveNameReversed(k) == CASE k = 1 -> "save3" [] k = 2 -> "save2" [] OTHER -> "save1"
\* the options of the k-th pdfDoc.save: useObjectStreams false, default, true
SaveName(k) == CASE k = 1 -> "save1" [] k = 2 -> "save2" [] OTHER -> "save3"

\* A save strategy throws; after the third, redactPDF gives up.
SaveFails(r) ==
  LET q == req[r]
      k == q.strategy + 1
      q1 == [q EXCEPT !.strategy = k, !.calls = Append(@, SaveName(k)),
                      !.warnings = Append(@, "Strategy failed")]
  IN
  /\ q.pc = "save"
  /\ k <= q.file[1].saved.fails
  /\ req' = [req EXCEPT ![r] =
       IF k = 3 THEN FailRedact(q1, <<MsgSave, LibSave>>) ELSE q1]
  /\ UNCHANGED <<now, disk, statsIn, statsOut, lastIndex, called>>

\* A save strategy succeeds; the lock is started unless skipEncryption.
SaveSucceeds(r) ==
  LET q == req[r]
      k == q.strategy + 1
      bytes == SavedBytes(q.file[1], q.pdfDoc)
      q1 == [q EXCEPT !.strategy = k, !.calls = Append(@, SaveName(k)),
                      !.redactedPdfBytes = <<bytes>>, !.outputBuffer = <<bytes>>]
  IN
  /\ q.pc = "save"
  /\ k > q.file[1].saved.fails
  /\ req' = [req EXCEPT ![r] =
       IF ~q.skipEncryption
         THEN [q1 EXCEPT !.calls = Append(@, "applyPDFEncryption"),
                         !.lock = "running", !.pc = "lock_import"]
         ELSE [q1 EXCEPT !.pc = "validate"]]
  /\ UNCHANGED <<now, disk, statsIn, statsOut, lastIndex, called>>

\* The output checks; redactPDF returns the bytes or throws.
Validate(r) ==
  LET q == req[r]
      v == ValidateOutput(q.outputBuffer[1], q.originalPageCount)
      q1 == [q EXCEPT !.checks = v.checks,
                      !.warnings = IF v.warned THEN Append(@, "Page count mismatch") ELSE @]
  IN
  /\ q.pc = "validate"
  /\ req' = [req EXCEPT ![r] =
       IF v.error = <<>> THEN ReturnRedact(q1) ELSE FailRedact(q1, v.error)]
  /\ UNCHANGED <<now, disk, statsIn, statsOut, lastIndex, called>>

\* res.send(redactedPdfBuffer) of the PDF-returning handler
SendPdf(r) ==
  LET q == req[r] IN
  /\ q.pc = "send"
  /\ req' = [req EXCEPT ![r] =
       Respond(q, [Response(200, "", <<>>) EXCEPT !.pdf = q.outputBuffer,
                                                   !.stats = q.stats])]
  /\ UNCHANGED <<now, disk, statsIn, statsOut, lastIndex, called>>

\* -------------------------------------------------- applyPDFEncryption
FileOf(r, data) == [by |-> r, data |-> data]
\* what a write or a tool that fails midway may leave behind
Truncated(data) == [data EXCEPT !.loadable = FALSE, !.len = 0]

\* await import("node-qpdf2") throws: nothing was written yet; redactPDF
\* logs the failure and goes on with the unlocked bytes.
LockImportFails(r) ==
  LET q == req[r] IN
  /\ q.pc = "lock_import"
  /\ req' = [req EXCEPT ![r] =
       [q EXCEPT !.lock = "failed",
                 !.warnings = Append(@, "Continuing without encryption restrictions"),
                 !.pc = "validate"]]
  /\ UNCHANGED <<now, disk, statsIn, statsOut, lastIndex, called>>

\* inputPath and outputPath are named after Date.now(), read twice.
LockStart(r) ==
  LET q == req[r] IN
  /\ q.pc = "lock_import"
  /\ \E t2 \in Later :
       /\ now' = t2
       /\ req' = [req EXCEPT ![r] =
            [q EXCEPT !.inputPath = <<Path("input", now, 0)>>,
                      !.outputPath = <<Path("output", t2, 0)>>,
                      !.pc = "lock_write"]]
  /\ UNCHANGED <<disk, statsIn, statsOut, lastIndex, called>>

\* await fs.writeFile(inputPath, pdfBuffer)
LockWrite(r) ==
  LET q == req[r] IN
  /\ q.pc = "lock_write"
  /\ \/ /\ disk' = WriteFile(disk, q.inputPath[1], FileOf(r, q.outputBuffer[1]))
        /\ req' = [req EXCEPT ![r] = [q EXCEPT !.pc = "lock_encrypt"]]
     \/ /\ disk' \in {disk, WriteFile(disk, q.inputPath[1],
                                       FileOf(r, Truncated(q.outputBuffer[1])))}
        /\ req' = [req EXCEPT ![r] = [q EXCEPT !.pc = "lock_catch_in"]]
  /\ UNCHANGED <<now, statsIn, statsOut, lastIndex, called>>

\* await encrypt(inputPath, {outputFile: outputPath, ...}): qpdf reads the
\* file at inputPath and writes the locked copy to outputPath.
LockEncrypt(r) ==
  LET q == req[r]
      inputPath == q.inputPath[1]
      outputPath == q.outputPath[1]
  IN
  /\ q.pc = "lock_encrypt"
  /\ \/ /\ inputPath \in DOMAIN disk
        /\ disk[inputPath].data.loadable
        /\ disk' = WriteFile(disk, outputPath,
                     FileOf(r, [disk[inputPath].data EXCEPT !.locked = TRUE]))
        /\ req' = [req EXCEPT ![r] = [q EXCEPT !.pc = "lock_read"]]
     \/ /\ disk' \in {disk} \cup
             (IF inputPath \in DOMAIN disk
                THEN {WriteFile(disk, outputPath,
                                FileOf(r, Truncated(disk[inputPath].data)))}
                ELSE {})
        /\ req' = [req EXCEPT ![r] = [q EXCEPT !.pc = "lock_catch_in"]]
  /\ UNCHANGED <<now, statsIn, statsOut, lastIndex, called>>

\* const encryptedBuffer = await fs.readFile(outputPath)
LockRead(r) ==
  LET q == req[r]
      outputPath == q.outputPath[1]
  IN
  /\ q.pc = "lock_read"
  /\ \/ /\ outputPath \in DOMAIN disk
        /\ req' = [req EXCEPT ![r] =
             [q EXCEPT !.encryptedBuffer = <<disk[outputPath].data>>,
                       !.pc = "lock_unlink_in"]]
     \/ req' = [req EXCEPT ![r] = [q EXCEPT !.pc = "lock_catch_in"]]
  /\ UNCHANGED <<now, disk, statsIn, statsOut, lastIndex, called>>

\* await fs.unlink(inputPath).catch(() => {})
LockUnlinkIn(r) ==
  LET q == req[r] IN
  /\ q.pc = "lock_unlink_in"
  /\ disk' = Unlink(disk, q.inputPath[1])
  /\ req' = [req EXCEPT ![r] = [q EXCEPT !.pc = "lock_unlink_out"]]
  /\ UNCHANGED <<now, statsIn, statsOut, lastIndex, called>>

\* await fs.unlink(outputPath).catch(() => {}); return encryptedBuffer
LockUnlinkOut(r) ==
  LET q == req[r] IN
  /\ q.pc = "lock_unlink_out"
  /\ disk' = Unlink(disk, q.outputPath[1])
  /\ req' = [req EXCEPT ![r] =
       [q EXCEPT !.lock = "ok", !.outputBuffer = q.encryptedBuffer, !.pc = "validate"]]
  /\ UNCHANGED <<now, statsIn, statsOut, lastIndex, called>>

\* the catch block: await fs.unlink(inputPath).catch(() => {})
LockCatchUnlinkIn(r) ==
  LET q == req[r] IN
  /\ q.pc = "lock_catch_in"
  /\ disk' = Unlink(disk, q.inputPath[1])
  /\ req' = [req EXCEPT ![r] = [q EXCEPT !.pc = "lock_catch_out"]]
  /\ UNCHANGED <<now, statsIn, statsOut, lastIndex, called>>

\* A redactPDF that lets the lock's exception reach its outer catch.
LockCatchThrows(r) ==
  LET q == req[r] IN
  /\ q.pc = "lock_catch_out"
  /\ disk' = Unlink(disk, q.outputPath[1])
  /\ req' = [req EXCEPT ![r] = FailRedact([q EXCEPT !.lock = "failed"], <<LibCommand>>)]
  /\ UNCHANGED <<now, statsIn, statsOut, lastIndex, called>>

\* await fs.unlink(outputPath).catch(() => {}); throw error.  redactPDF
\* catches it, logs it and goes on with the unlocked bytes.
LockCatchUnlinkOut(r) ==
  LET q == req[r] IN
  /\ q.pc = "lock_catch_out"
  /\ disk' = Unlink(disk, q.outputPath[1])
  /\ req' = [req EXCEPT ![r] =
       [q EXCEPT !.lock = "failed",
                 !.warnings = Append(@, "Continuing without encryption restrictions"),
                 !.pc = "validate"]]
  /\ UNCHANGED <<now, statsIn, statsOut, lastIndex, called>>

\* -------------------------------------------------- convertPDFToImages
\* tempPdfPath and outputPrefix are named after Date.now(), read twice.
ConvStart(r) ==
  LET q == req[r] IN
  /\ q.pc = "conv_start"
  /\ \E t2 \in Later :
       /\ now' = t2
       /\ req' = [req EXCEPT ![r] =
            [q EXCEPT !.calls = Append(@, "convertPDFToImages"),
                      !.tempPdfPath = <<Path("temp-pdf", now, 0)>>,
                      !.outputPrefix = <<t2>>,
                      !.pc = "conv_write"]]
  /\ UNCHANGED <<disk, statsIn, statsOut, lastIndex, called>>

\* await fs.writeFile(tempPdfPath, pdfBuffer)
ConvWrite(r) ==
  LET q == req[r] IN
  /\ q.pc = "conv_write"
  /\ \/ /\ disk' = WriteFile(disk, q.tempPdfPath[1], FileOf(r, q.outputBuffer[1]))
        /\ req' = [req EXCEPT ![r] = [q EXCEPT !.pc = "conv_exec"]]
     \/ /\ disk' \in {disk, WriteFile(disk, q.tempPdfPath[1],
                                       FileOf(r, Truncated(q.outputBuffer[1])))}
        /\ req' = [req EXCEPT ![r] =
             [q EXCEPT !.error = <<LibIO>>, !.pc = "conv_catch_pdf"]]
  /\ UNCHANGED <<now, statsIn, statsOut, lastIndex, called>>

\* the PNG files pdftoppm writes for the first n pages of the document
PngFiles(d, r, prefix, data, n) ==
  [x \in DOMAIN d \cup {Path("png", prefix, k) : k \in 1..n} |->
     IF x.kind = "png" /\ x.t = prefix /\ x.n \in 1..n
       THEN FileOf(r, [src |-> data.src, page |-> x.n])
       ELSE d[x]]

\* execSync(`pdftoppm -png -r ${dpi} "${tempPdfPath}" "${outputPrefix}"`):
\* one PNG per page of the file at tempPdfPath.
ConvExec(r) ==
  LET q == req[r]
      tempPdfPath == q.tempPdfPath[1]
      prefix == q.outputPrefix[1]
  IN
  /\ q.pc = "conv_exec"
  /\ \/ /\ tempPdfPath \in DOMAIN disk
        /\ disk[tempPdfPath].data.loadable
        /\ disk' = PngFiles(disk, r, prefix, disk[tempPdfPath].data,
                            Len(disk[tempPdfPath].data.pages))
        /\ req' = [req EXCEPT ![r] = [q EXCEPT !.pc = "conv_readdir"]]
     \/ /\ disk' \in {disk} \cup
             (IF tempPdfPath \in DOMAIN disk /\ disk[tempPdfPath].data.pages # <<>>
                THEN {PngFiles(disk, r, prefix, disk[tempPdfPath].data, 1)}
                ELSE {})
        /\ req' = [req EXCEPT ![r] =
             [q EXCEPT !.error = <<LibCommand>>, !.pc = "conv_catch_pdf"]]
  /\ UNCHANGED <<now, statsIn, statsOut, lastIndex, called>>

RECURSIVE SortedPngs(_, _, _)
\* files.filter(startsWith(prefix) && endsWith('.png')).sort(), page k
\* onwards
SortedPngs(d, prefix, k) ==
  IF \A x \in DOMAIN d : ~(x.kind = "png" /\ x.t = prefix /\ x.n >= k) THEN <<>>
  ELSE IF Path("png", prefix, k) \in DOMAIN d
    THEN <<Path("png", prefix, k)>> \o SortedPngs(d, prefix, k + 1)
    ELSE SortedPngs(d, prefix, k + 1)

\* const files = await fs.readdir(tempDir); const outputFiles = ...
ConvReaddir(r) ==
  LET q == req[r]
      outputFiles == SortedPngs(disk, q.outputPrefix[1], 1)
  IN
  /\ q.pc = "conv_readdir"
  /\ req' = [req EXCEPT ![r] =
       [q EXCEPT !.outputFiles = outputFiles, !.i = 0,
                 !.pc = IF outputFiles = <<>> THEN "conv_unlink_pdf" ELSE "conv_read"]]
  /\ UNCHANGED <<now, disk, statsIn, statsOut, lastIndex, called>>

\* const imageBuffer = await fs.readFile(filePath); images.push(...)
ConvRead(r) ==
  LET q == req[r]
      filePath == q.outputFiles[q.i + 1]
  IN
  /\ q.pc = "conv_read"
  /\ req' = [req EXCEPT ![r] =
       IF filePath \in DOMAIN disk
         THEN [q EXCEPT !.images = Append(@, [pageNumber |-> q.i + 1,
                                              data |-> disk[filePath].data]),
                        !.pc = "conv_unlink_png"]
         ELSE [q EXCEPT !.error = <<LibIO>>, !.pc = "conv_catch_pdf"]]
  /\ UNCHANGED <<now, disk, statsIn, statsOut, lastIndex, called>>

\* await fs.unlink(filePath).catch(() => {}); i++
ConvUnlinkPng(r) ==
  LET q == req[r] IN
  /\ q.pc = "conv_unlink_png"
  /\ disk' = Unlink(disk, q.outputFiles[q.i + 1])
  /\ req' = [req EXCEPT ![r] =
       [q EXCEPT !.i = q.i + 1,
                 !.pc = IF q.i + 1 < Len(q.outputFiles) THEN "conv_read"
                        ELSE "conv_unlink_pdf"]]
  /\ UNCHANGED <<now, statsIn, statsOut, lastIndex, called>>

\* await fs.unlink(tempPdfPath).catch(() => {}); return images; the handler
\* sends them: res.json({success: true, ...})
ConvUnlinkPdf(r) ==
  LET q == req[r] IN
  /\ q.pc = "conv_unlink_pdf"
  /\ disk' = Unlink(disk, q.tempPdfPath[1])
  /\ req' = [req EXCEPT ![r] =
       Respond(q, [Response(200, "", <<"Successfully redacted">>)
                     EXCEPT !.images = q.images, !.stats = q.stats])]
  /\ UNCHANGED <<now, statsIn, statsOut, lastIndex, called>>

\* the catch block: await fs.unlink(tempPdfPath).catch(() => {})
ConvCatchUnlinkPdf(r) ==
  LET q == req[r] IN
  /\ q.pc = "conv_catch_pdf"
  /\ disk' = Unlink(disk, q.tempPdfPath[1])
  /\ req' = [req EXCEPT ![r] = [q EXCEPT !.pc = "conv_catch_readdir"]]
  /\ UNCHANGED <<now, statsIn, statsOut, lastIndex, called>>

\* the wrapped error convertPDFToImages throws to the handler
ConvThrow(q) == [q EXCEPT !.error = <<MsgConvert>> \o q.error, !.pc = "catch"]

\* the catch block: const files = await fs.readdir(tempDir); ...
ConvCatchReaddir(r) ==
  LET q == req[r]
      outputFiles == SortedPngs(disk, q.outputPrefix[1], 1)
  IN
  /\ q.pc = "conv_catch_readdir"
  /\ req' = [req EXCEPT ![r] =
       IF outputFiles = <<>> THEN ConvThrow(q)
       ELSE [q EXCEPT !.outputFiles = outputFiles, !.i = 0, !.pc = "conv_catch_png"]]
  /\ UNCHANGED <<now, disk, statsIn, statsOut, lastIndex, called>>

\* the catch block: await fs.unlink(path.join(tempDir, file)).catch(() => {})
ConvCatchUnlinkPng(r) ==
  LET q == req[r] IN
  /\ q.pc = "conv_catch_png"
  /\ disk' = Unlink(disk, q.outputFiles[q.i + 1])
  /\ req' = [req EXCEPT ![r] =
       IF q.i + 1 < Len(q.outputFiles) THEN [q EXCEPT !.i = q.i + 1]
       ELSE ConvThrow([q EXCEPT !.i = q.i + 1])]
  /\ UNCHANGED <<now, statsIn, statsOut, lastIndex, called>>

\* ------------------------------------------------------ specifications
\* One step of the code that serves request r.
HandlerStep(r) ==
  \/ ReceiveRequest(r)
  \/ PreFlight(r)
  \/ ExtractFails(r)
  \/ ExtractReturns(r)
  \/ RedactOrNot(r)
  \/ DirectRedact(r)
  \/ Analyze(r)
  \/ HandlerCatch(r)
  \/ StrictLoad(r)
  \/ TolerantLoad(r)
  \/ SaveFails(r)
  \/ SaveSucceeds(r)
  \/ Validate(r)
  \/ SendPdf(r)
  \/ LockImportFails(r)
  \/ LockStart(r)
  \/ LockWrite(r)
  \/ LockEncrypt(r)
  \/ LockRead(r)
  \/ LockUnlinkIn(r)
  \/ LockUnlinkOut(r)
  \/ LockCatchUnlinkIn(r)
  \/ LockCatchUnlinkOut(r)
  \/ ConvStart(r)
  \/ ConvWrite(r)
  \/ ConvExec(r)
  \/ ConvReaddir(r)
  \/ ConvRead(r)
  \/ ConvUnlinkPng(r)
  \/ ConvUnlinkPdf(r)
  \/ ConvCatchUnlinkPdf(r)
  \/ ConvCatchReaddir(r)
  \/ ConvCatchUnlinkPng(r)
Next ==
  \/ Tick
  \/ \E r \in Reqs : HandlerStep(r)

Spec == Init /\ [][Next]_vars
\* Every await of a handler resolves or rejects, and the event loop then runs
\* the continuation: a step of a request that stays possible is taken.
\* The documents of the requests followed to their response: one without
\* pages, one without a match, one with matches on both pages.
LiveDocs ==
  { <<>>,
    <<Page(60, 40, <<RunPlain, RunBlank>>)>>,
    <<Page(60, 40, <<RunEmail>>), Page(60, 50, <<RunPlain, RunPhone>>)>> }
InitLive ==
  /\ Init
  /\ req[1].file # <<>> => req[1].file[1].pages \in LiveDocs
SpecLive == InitLive /\ [][Next]_vars /\ WF_vars(HandlerStep(1))

\* getRedactionStats called on any sequence of PageRedactionSets.
StatItems == [type : {"email", "phone"}, text : {<<"t">>}]
StatSets ==
  { [pageNumber |-> n, items |-> items] :
      n \in 1..MaxPages, items \in SeqsUpTo(StatItems, MaxItems) }
InitStats ==
  /\ now = 0
  /\ disk = <<>>
  /\ req = [r \in Reqs |-> Idle]
  /\ statsIn \in SeqsUpTo(StatSets, MaxSets)
  /\ statsOut = <<>>
  /\ lastIndex = FreshIndex
  /\ called = <<>>
StatsCall ==
  /\ statsOut = <<>>
  /\ statsOut' = <<getRedactionStats(statsIn)>>
  /\ UNCHANGED <<now, disk, req, statsIn, lastIndex, called>>
SpecStats == InitStats /\ [][StatsCall]_vars

\* Requests in flight together, each a redact request with a well-formed
\* document holding personal information.
ConcUploads(id) ==
  { Upload(id, "ok", TRUE, "ok", TRUE, TRUE, d, Nominal) : d \in ConcDocs }
InitConc ==
  /\ now = 0
  /\ disk = <<>>
  /\ req \in [Reqs -> UNION { { NewRequest(e, <<u>>, FALSE) :
                                  e \in RedactHandlers, u \in ConcUploads(id) } :
                              id \in Reqs }]
  /\ \A r \in Reqs : req[r].file[1].id = r
  /\ statsIn = <<>>
  /\ statsOut = <<>>
  /\ lastIndex = FreshIndex
  /\ called = <<>>
NextConc ==
  \/ Tick
  \/ \E r \in Reqs :
       \/ ReceiveRequest(r)
       \/ PreFlight(r)
       \/ ExtractReturns(r)
       \/ RedactOrNot(r)
       \/ HandlerCatch(r)
       \/ StrictLoad(r)
       \/ SaveSucceeds(r)
       \/ Validate(r)
       \/ SendPdf(r)
       \/ LockImportFails(r)
       \/ LockStart(r)
       \/ LockWrite(r)
       \/ LockEncrypt(r)
       \/ LockRead(r)
       \/ LockUnlinkIn(r)
       \/ LockUnlinkOut(r)
       \/ LockCatchUnlinkIn(r)
       \/ LockCatchUnlinkOut(r)
       \/ ConvStart(r)
       \/ ConvWrite(r)
       \/ ConvExec(r)
       \/ ConvReaddir(r)
       \/ ConvRead(r)
       \/ ConvUnlinkPng(r)
       \/ ConvUnlinkPdf(r)
       \/ ConvCatchUnlinkPdf(r)
       \/ ConvCatchReaddir(r)
       \/ ConvCatchUnlinkPng(r)
SpecConc == InitConc /\ [][NextConc]_vars

\* The pattern functions called in any order on any of the texts.
TokEmail == <<"a", "@", "b", ".", "c", "o">>
TokPhone == <<" ", "5", "5", "5", "-", "1", "2", "3", "-", "4", "5", "6", "7">>
TokCompact == <<"5", "5", "5", "1", "2", "3", "4", "5", "6", "7">>
TokWord == <<"x", " ">>
Tokens == {TokEmail, TokPhone, TokCompact, TokWord}
RECURSIVE Concat(_)
Concat(parts) == IF parts = <<>> THEN <<>> ELSE Head(parts) \o Concat(Tail(parts))
PatternTexts == { Concat(parts) : parts \in SeqsUpTo(Tokens, MaxTokens) }
PatternFns == {"isEmail", "isPhone", "containsPII", "findEmails", "findPhones"}
Classify(fn, text, li) ==
  CASE fn = "isEmail" -> isEmailCall(text, li)
    [] fn = "isPhone" -> isPhoneCall(text, li)
    [] fn = "containsPII" -> containsPIICall(text, li)
    [] fn = "findEmails" -> findEmailsCall(text, li)
    [] OTHER -> findPhonesCall(text, li)
InitPatterns ==
  /\ now = 0
  /\ disk = <<>>
  /\ req = [r \in Reqs |-> Idle]
  /\ statsIn = <<>>
  /\ statsOut = <<>>
  /\ lastIndex = FreshIndex
  /\ called = <<>>
PatternCall ==
  \E fn \in PatternFns, text \in PatternTexts :
    \E c \in {Classify(fn, text, lastIndex)} :
    /\ called' = <<[fn |-> fn, text |-> text, value |-> c.value]>>
    /\ lastIndex' = c.lastIndex
    /\ UNCHANGED <<now, disk, req, statsIn, statsOut>>
SpecPatterns == InitPatterns /\ [][PatternCall]_vars

\* ------------------------------------------------------------ express
\* A request through an express app: upload.single, the handler, and the
\* error-handling middleware behind it.  "server" is server.js, "app" the
\* server that mounts the handlers at the root as well and uses the
\* middleware of errorHandler.js.
Apps == {"server", "app"}
Routes(app) == IF app = "server" THEN {"router"} ELSE {"router", "root"}
\* upload.single("pdf") of the router, upload.single("file") at the root
FieldName(route) == IF route = "router" THEN "pdf" ELSE "file"
MsgOnlyPdf == "Only PDF files are allowed"
MsgUnexpectedField == "Unexpected field"
MsgFileTooLarge == "File too large"
MsgEndOfForm == "Unexpected end of form"
MsgMaxSize == "Maximum file size is 10MB"
\* what next(error) is called with
MulterError(code, message) == [multer |-> TRUE, code |-> code, message |-> <<message>>]
PlainError(message) == [multer |-> FALSE, code |-> "", message |-> <<message>>]
\* fileFilter: cb(null, true) or cb(new Error(...), false)
FileFilter(file) ==
  IF file.mimetype = "application/pdf" THEN <<>> ELSE <<PlainError(MsgOnlyPdf)>>
\* upload.single(fieldName) on a request: the error it hands to next, if any
UploadSingle(q, fieldName) ==
  IF q.body = <<>>
    THEN IF q.truncated THEN <<PlainError(MsgEndOfForm)>> ELSE <<>>
  ELSE IF q.body[1].fieldname # fieldName
    THEN <<MulterError("LIMIT_UNEXPECTED_FILE", MsgUnexpectedField)>>
  ELSE IF FileFilter(q.body[1]) # <<>> THEN FileFilter(q.body[1])
  ELSE IF q.body[1].tooLarge
    THEN <<MulterError("LIMIT_FILE_SIZE", MsgFileTooLarge)>>
  ELSE <<>>

\* documents and uploads of the requests sent through an app
HttpUploads(id) ==
  { Upload(id, "ok", TRUE, "corrupt", FALSE, FALSE, <<>>, Nominal),
    Upload(id, "ok", TRUE, "encrypted", FALSE, FALSE, <<>>, Nominal) }
  \cup { Upload(id, "ok", TRUE, "ok", TRUE, j, d, Nominal) :
           j \in BOOLEAN, d \in HttpDocs }
FileParts(id) ==
  [fieldname : {"pdf", "file", "wrongfield"},
   mimetype : {"application/pdf", "text/plain"},
   tooLarge : BOOLEAN,
   buffer : HttpUploads(id)]
HttpRequest(app, route, entry, nodeEnv, body, truncated) ==
  [NewRequest(entry, <<>>, FALSE) EXCEPT
     !.app = app, !.route = route, !.nodeEnv = <<nodeEnv>>, !.body = body,
     !.truncated = truncated, !.pc = "multer"]
HttpEntries(id) ==
  { HttpRequest(app, route, entry, nodeEnv, body, FALSE) :
      app \in Apps, route \in {"router", "root"}, entry \in Handlers,
      nodeEnv \in {"production", "development"},
      body \in {<<>>} \cup { <<part>> : part \in FileParts(id) } }
  \cup
  { HttpRequest(app, route, entry, nodeEnv, <<>>, TRUE) :
      app \in Apps, route \in {"router", "root"}, entry \in Handlers,
      nodeEnv \in {"production", "development"} }
InitHttp ==
  /\ now = 0
  /\ disk = <<>>
  /\ \E q \in HttpEntries(1) :
       /\ q.route \in Routes(q.app)
       /\ req = [r \in Reqs |-> IF r = 1 THEN q ELSE Idle]
  /\ statsIn = <<>>
  /\ statsOut = <<>>
  /\ lastIndex = FreshIndex
  /\ called = <<>>

\* upload.single(...) in front of the handler
Multer(r) ==
  LET q == req[r]
      error == UploadSingle(q, FieldName(q.route))
  IN
  /\ q.pc = "multer"
  /\ req' = [req EXCEPT ![r] =
       IF error # <<>>
         THEN [q EXCEPT !.nextError = error,
                        !.pc = IF q.route = "router" THEN "router_error"
                               ELSE "app_error"]
       ELSE [q EXCEPT !.file = IF q.body = <<>> THEN <<>> ELSE <<q.body[1].buffer>>,
                      !.pc = "start"]]
  /\ UNCHANGED <<now, disk, statsIn, statsOut, lastIndex, called>>

\* router.use((error, req, res, next) => ...) of routes/editor.js
RouterErrorHandler(r) ==
  LET q == req[r]
      error == q.nextError[1]
  IN
  /\ q.pc = "router_error"
  /\ req' = [req EXCEPT ![r] =
       IF error.multer /\ error.code = "LIMIT_FILE_SIZE"
         THEN Respond(q, Response(413, "File too large", <<MsgMaxSize>>))
       ELSE IF error.message = <<MsgOnlyPdf>>
         THEN Respond(q, Response(400, "Invalid file type", <<MsgOnlyPdf>>))
       ELSE [q EXCEPT !.pc = "app_error"]]
  /\ UNCHANGED <<now, disk, statsIn, statsOut, lastIndex, called>>

\* app.use((error, req, res, next) => ...) of server.js
ServerErrorHandler(r) ==
  LET q == req[r]
      error == q.nextError[1]
  IN
  /\ q.pc = "app_error"
  /\ q.app = "server"
  /\ req' = [req EXCEPT ![r] =
       Respond(q, Response(500, "Internal server error", error.message))]
  /\ UNCHANGED <<now, disk, statsIn, statsOut, lastIndex, called>>

\* app.use(multerErrorHandler(MAX_FILE_SIZE))
multerErrorHandler(r) ==
  LET q == req[r]
      error == q.nextError[1]
  IN
  /\ q.pc = "app_error"
  /\ q.app = "app"
  /\ req' = [req EXCEPT ![r] =
       IF Includes(error.message, "CORS")
         THEN Respond(q, Response(403, "CORS Error",
                <<"Cross-Origin Request Blocked: The origin is not allowed">>))
       ELSE IF error.multer
         THEN IF error.code = "LIMIT_FILE_SIZE"
                THEN Respond(q, Response(413, "File too large", <<MsgMaxSize>>))
                ELSE Respond(q, Response(400, "File upload error", error.message))
       ELSE IF error.message = <<MsgOnlyPdf>>
         THEN Respond(q, Response(400, "Invalid file type", <<MsgOnlyPdf>>))
       ELSE [q EXCEPT !.pc = "global_error"]]
  /\ UNCHANGED <<now, disk, statsIn, statsOut, lastIndex, called>>

\* app.use(globalErrorHandler)
globalErrorHandler(r) ==
  LET q == req[r]
      error == q.nextError[1]
      isProduction == q.nodeEnv = <<"production">>
  IN
  /\ q.pc = "global_error"
  /\ req' = [req EXCEPT ![r] =
       Respond(q, Response(500, "Internal server error",
                 IF isProduction
                   THEN <<"An error occurred while processing your request">>
                   ELSE error.message))]
  /\ UNCHANGED <<now, disk, statsIn, statsOut, lastIndex, called>>

NextHttp ==
  \E r \in Reqs :
    \/ Multer(r)
    \/ RouterErrorHandler(r)
    \/ ServerErrorHandler(r)
    \/ multerErrorHandler(r)
    \/ globalErrorHandler(r)
    \/ ReceiveRequest(r)
    \/ PreFlight(r)
    \/ ExtractFails(r)
    \/ ExtractReturns(r)
    \/ RedactOrNot(r)
    \/ Analyze(r)
    \/ HandlerCatch(r)
SpecHttp == InitHttp /\ [][NextHttp]_vars

\* the messages of the exceptions thrown inside the services, the libraries
\* and the file system
RawMessages ==
  {MsgExtract, MsgRedact, MsgProtected, MsgNoInputPages, MsgSave, MsgTooSmall,
   MsgValidation, MsgNoOutputPages, MsgDimensions, MsgConvert,
   LibEncrypted, LibParse, LibPdfjs, LibSave, LibImport, LibIO, LibCommand}
\* a response body carries text of an exception message
ExposesException(response) ==
  \/ \E i \in 1..Len(response.message) : response.message[i] \in RawMessages
  \/ \E i \in 1..Len(response.technicalDetails) :
       response.technicalDetails[i] \in RawMessages

\* --------------------------------------------------------------- claims
\* C1: for any sequence of PageRedactionSets passed to getRedactionStats,
\* the returned totalRedactions equals emails + phones.
C1_TotalIsEmailsPlusPhones ==
  statsOut # <<>> =>
    statsOut[1].totalRedactions = statsOut[1].emails + statsOut[1].phones
\* getRedactionStats has returned for two sets holding items of both types
C1_Witness ==
  /\ statsOut # <<>>
  /\ Len(statsIn) = 2
  /\ statsOut[1].emails >= 1
  /\ statsOut[1].phones >= 1
  /\ statsOut[1].totalRedactions >= 3

\* C2: whenever extractPIICoordinates has returned, the pagesAffected that
\* getRedactionStats reports for its collection (and that the handler keeps
\* and sends) is the number of distinct pageNumber values in the collection.
C2_PagesAffectedIsDistinctPages ==
  \A r \in Reqs :
    LET q == req[r]
        distinct == Cardinality({ q.piiItems[k].pageNumber : k \in 1..Len(q.piiItems) })
    IN q.extracted =>
         /\ getRedactionStats(q.piiItems).pagesAffected = distinct
         /\ q.stats # <<>> => q.stats[1].pagesAffected = distinct
         /\ \A j \in 1..Len(q.res) :
              q.res[j].stats # <<>> => q.res[j].stats[1].pagesAffected = distinct
\* statistics were computed for a document with matches on two pages, one of
\* them carrying several items
C2_Witness ==
  \E r \in Reqs :
    /\ req[r].stats # <<>>
    /\ req[r].stats[1].pagesAffected = 2
    /\ req[r].stats[1].totalRedactions > 2

\* C3 as stated: whenever redactPDF returns bytes, their page count equals
\* the page count of the input document.
C3_SamePageCount ==
  \A r \in Reqs :
    req[r].ret = "returned" =>
      Len(req[r].outputBuffer[1].pages) = Len(req[r].file[1].pages)
\* C3: whenever redactPDF returns bytes, the returned document has at least
\* one page, and its page count differs from the count taken from the input
\* exactly when the page-count warning was logged: a mismatch is reported,
\* it does not make redactPDF fail.
C3_PageCountMismatchOnlyWarned ==
  \A r \in Reqs :
    LET q == req[r] IN
    q.ret = "returned" =>
      /\ Len(q.outputBuffer[1].pages) > 0
      /\ q.originalPageCount = Len(q.file[1].pages)
      /\ (Len(q.outputBuffer[1].pages) # q.originalPageCount)
           <=> (\E k \in 1..Len(q.warnings) : q.warnings[k] = "Page count mismatch")
\* redactPDF has returned bytes with fewer pages than the input
C3_Witness ==
  \E r \in Reqs :
    /\ req[r].ret = "returned"
    /\ Len(req[r].outputBuffer[1].pages) < Len(req[r].file[1].pages)

\* C4: when extraction yields no match, a redact handler answers 200 with
\* all-zero statistics, and redactPDF, the save strategies, the lock and the
\* conversion are never invoked for that request.
C4_NoMatchShortCircuit ==
  \A r \in Reqs :
    LET q == req[r] IN
    (q.entry \in RedactHandlers /\ q.extracted /\ Len(q.piiItems) = 0) =>
      /\ \A k \in 1..Len(q.calls) :
           q.calls[k] \notin {"redactPDF", "strictLoad", "tolerantLoad", "save1", "save2",
                              "save3", "applyPDFEncryption", "convertPDFToImages"}
      /\ q.redactedPdfBytes = <<>>
      /\ q.lock = "none"
      /\ q.ret = "none"
      /\ q.pc \in {"extracted", "done"}
      /\ q.pc = "done" =>
           /\ Len(q.res) = 1
           /\ q.res[1].status = 200
           /\ q.res[1].stats = <<[totalRedactions |-> 0, emails |-> 0,
                                  phones |-> 0, pagesAffected |-> 0]>>
           /\ q.res[1].pdf = <<>>
           /\ q.res[1].images = <<>>
\* a redact handler has answered a request whose document has text but no
\* match
C4_Witness ==
  \E r \in Reqs :
    /\ req[r].entry \in RedactHandlers
    /\ req[r].extracted
    /\ req[r].piiItems = <<>>
    /\ req[r].pc = "done"
    /\ \E i \in 1..Len(req[r].file[1].pages) : req[r].file[1].pages[i].runs # <<>>

\* C5: after redactPDF has returned, no show-text operator of a redacted page
\* carries exactly the text of an item matched on that page.
C5_MatchedTextRemoved ==
  \A r \in Reqs :
    LET q == req[r] IN
    q.ret = "returned" =>
      \A k \in 1..Len(q.piiItems) :
        LET n == q.piiItems[k].pageNumber
            pages == q.outputBuffer[1].pages
        IN n <= Len(pages) =>
             \A j \in 1..Len(q.piiItems[k].items) :
               \A o \in 1..Len(pages[n].ops) :
                 pages[n].ops[o] # q.piiItems[k].items[j].text

\* C6: while a redact request is processed, no file holding bytes of its
\* document is on disk.
C6_NothingOnDisk ==
  \A path \in DOMAIN disk : req[disk[path].by].entry \notin RedactHandlers

\* C7: redactPDF returns bytes only if these bytes passed the four output
\* checks in order; when a check fails the later ones are not made, redactPDF
\* throws, and no response of the request carries the bytes or images.
C7_ChecksGateTheBytes ==
  \A r \in Reqs :
    LET q == req[r]
        order == <<"size", "load", "pages", "dims">>
        Passes(c, b) ==
          CASE c = "size" -> b.len >= 200
            [] c = "load" -> b.loadable
            [] c = "pages" -> Len(b.pages) > 0
            [] OTHER -> \A i \in 1..Len(b.pages) :
                          b.pages[i].width # 0 /\ b.pages[i].height # 0
    IN
    /\ q.ret = "returned" =>
         /\ q.checks = order
         /\ \A k \in 1..4 : Passes(order[k], q.outputBuffer[1])
    /\ (q.ret = "threw" /\ q.checks # <<>>) =>
         LET n == Len(q.checks) IN
         /\ n <= 4
         /\ q.checks = SubSeq(order, 1, n)
         /\ \A k \in 1..(n - 1) : Passes(order[k], q.outputBuffer[1])
         /\ ~Passes(order[n], q.outputBuffer[1])
    /\ q.ret # "returned" =>
         \A j \in 1..Len(q.res) : q.res[j].pdf = <<>> /\ q.res[j].images = <<>>
    /\ \A j \in 1..Len(q.res) : q.res[j].pdf # <<>> => q.res[j].pdf = q.outputBuffer
    /\ (q.ret = "threw" /\ q.pc = "done" /\ q.entry \in RedactHandlers) =>
         Len(q.res) = 1 /\ q.res[1].status = 500
\* a handler has answered 500 after the last check, the dimensions, failed
C7_Witness ==
  \E r \in Reqs :
    /\ req[r].ret = "threw"
    /\ req[r].checks = <<"size", "load", "pages", "dims">>
    /\ req[r].entry \in RedactHandlers
    /\ req[r].pc = "done"

\* C8: with skipEncryption the lock is never attempted; a lock that was
\* attempted and failed does not make redactPDF fail: the output checks are
\* reached with the unlocked saved bytes, and only they decide the outcome.
C8_LockIsBestEffort ==
  \A r \in Reqs :
    LET q == req[r] IN
    /\ q.skipEncryption =>
         /\ ~Called(q, "applyPDFEncryption")
         /\ q.lock = "none"
         /\ q.inputPath = <<>> /\ q.outputPath = <<>>
    /\ q.lock = "failed" =>
         /\ q.outputBuffer = q.redactedPdfBytes
         /\ ~q.outputBuffer[1].locked
         /\ q.pc = "validate" \/ q.checks # <<>>
         /\ q.ret = "threw" <=>
              (q.checks # <<>>
               /\ ValidateOutput(q.redactedPdfBytes[1], q.originalPageCount).error # <<>>)
\* the lock failed after its temporary files were named, and redactPDF
\* returned the unlocked bytes
C8_Witness ==
  \E r \in Reqs :
    /\ req[r].lock = "failed"
    /\ req[r].inputPath # <<>>
    /\ req[r].ret = "returned"
    /\ req[r].outputBuffer = req[r].redactedPdfBytes

C10_RequestsIsolated ==
  \A r \in Reqs :
    LET q == req[r]
        pathsOf(x) ==
          { x.inputPath[k] : k \in 1..Len(x.inputPath) }
          \cup { x.outputPath[k] : k \in 1..Len(x.outputPath) }
          \cup { x.tempPdfPath[k] : k \in 1..Len(x.tempPdfPath) }
          \cup { Path("png", x.outputPrefix[k], n) :
                   k \in 1..Len(x.outputPrefix), n \in 1..MaxPages }
    IN
    /\ \A o \in Reqs \ {r} :
         (q.pc # "done" /\ req[o].pc # "done") => pathsOf(q) \cap pathsOf(req[o]) = {}
    /\ q.pc # "done" =>
         \A path \in pathsOf(q) \cap DOMAIN disk : disk[path].by = r
    /\ \A j \in 1..Len(q.res) :
         /\ \A k \in 1..Len(q.res[j].pdf) : q.res[j].pdf[k].src = r
         /\ \A k \in 1..Len(q.res[j].images) : q.res[j].images[k].data.src = r

\* C11: when the pre-flight check finds the upload protected or malformed,
\* the handler answers 400 with the message of that category, the check is
\* made once, and extractPIICoordinates and redactPDF are never invoked.
C11_PreFlightStopsTheRequest ==
  \A r \in Reqs :
    LET q == req[r] IN
    (/\ q.entry \in Handlers
     /\ q.file # <<>>
     /\ (q.file[1].size = "tiny" \/ ~q.file[1].header \/ q.file[1].strict # "ok")) =>
      /\ ~Called(q, "extractPIICoordinates")
      /\ ~Called(q, "redactPDF")
      /\ Cardinality({ k \in 1..Len(q.calls) : q.calls[k] = "checkPDFEncryption" }) <= 1
      /\ q.pc \in {"start", "check", "done"}
      /\ q.pc = "done" =>
           /\ q.calls = <<"checkPDFEncryption">>
           /\ Len(q.res) = 1
           /\ q.res[1].status = 400
           /\ q.res[1].error =
                (IF q.file[1].size = "ok" /\ q.file[1].header /\ q.file[1].strict = "encrypted"
                   THEN "PDF is Password Protected" ELSE "Invalid PDF File")
           /\ q.res[1].message # <<>>
\* a handler has answered a protected upload
C11_Witness ==
  \E r \in Reqs :
    /\ req[r].entry \in Handlers
    /\ req[r].file # <<>>
    /\ req[r].file[1].strict = "encrypted"
    /\ req[r].pc = "done"
    /\ req[r].res[1].error = "PDF is Password Protected"

\* C13: when extractPIICoordinates returns, every PageRedactionSet has a
\* non-empty items list, and a page of the document has a set exactly when
\* one of its text items, trimmed, holds an email or a phone number.
C13_SetsNeverEmpty ==
  \A r \in Reqs :
    LET q == req[r]
        pages == q.file[1].pages
        hasMatch(n) ==
          \E j \in 1..Len(pages[n].runs) :
            LET text == Trim(pages[n].runs[j].str)
            IN text # <<>> /\ (isEmail(text) \/ isPhone(text))
    IN q.pc = "extracted" =>
         /\ \A k \in 1..Len(q.piiItems) : Len(q.piiItems[k].items) > 0
         /\ \A n \in 1..Len(pages) :
              (\E k \in 1..Len(q.piiItems) : q.piiItems[k].pageNumber = n) <=> hasMatch(n)
\* extraction has returned for a document with a page without matches and a
\* page with matches
C13_Witness ==
  \E r \in Reqs :
    /\ req[r].pc = "extracted"
    /\ Len(req[r].file[1].pages) = 2
    /\ Len(req[r].piiItems) = 1
    /\ Len(req[r].piiItems[1].items) > 1

\* C14: when extractPIICoordinates returns, its sets are in strictly
\* ascending pageNumber order and each pageNumber is the 1-based position of
\* the page in the document: the set carries that page's size and items.
C14_AscendingAbsolutePageNumbers ==
  \A r \in Reqs :
    LET q == req[r]
        pages == q.file[1].pages
    IN q.pc = "extracted" =>
         /\ \A k \in 1..(Len(q.piiItems) - 1) :
              q.piiItems[k].pageNumber < q.piiItems[k + 1].pageNumber
         /\ \A k \in 1..Len(q.piiItems) :
              LET n == q.piiItems[k].pageNumber IN
              /\ n \in 1..Len(pages)
              /\ q.piiItems[k].pageHeight = pages[n].height
              /\ q.piiItems[k].pageWidth = pages[n].width
              /\ \A j \in 1..Len(q.piiItems[k].items) :
                   \E i \in 1..Len(pages[n].runs) :
                     /\ q.piiItems[k].items[j].x = pages[n].runs[i].tx
                     /\ q.piiItems[k].items[j].width = pages[n].runs[i].width
                     /\ q.piiItems[k].items[j].y
                          = pages[n].height - pages[n].runs[i].ty - pages[n].runs[i].height
\* extraction has returned a single set, for the second page of a document
\* whose first page has no match
C14_Witness ==
  \E r \in Reqs :
    /\ req[r].pc = "extracted"
    /\ Len(req[r].piiItems) = 1
    /\ req[r].piiItems[1].pageNumber = 2
    /\ req[r].piiItems[1].pageHeight = 50

\* C19: a redact or analyze request without a file is answered 400 with the
\* error "No PDF file uploaded", and the pre-flight check, the extraction and
\* the redaction are never invoked.
C19_NoFileIsRejected ==
  \A r \in Reqs :
    LET q == req[r] IN
    (q.entry \in Handlers /\ q.file = <<>> /\ q.pc \in {"start", "done"}) =>
      /\ q.calls = <<>>
      /\ ~q.extracted
      /\ q.ret = "none"
      /\ q.pc = "done" =>
           /\ Len(q.res) = 1
           /\ q.res[1].status = 400
           /\ q.res[1].error = "No PDF file uploaded"
           /\ q.res[1].stats = <<>>
\* the analyze handler has answered a request without a file
C19_Witness ==
  \E r \in Reqs :
    /\ req[r].entry = "analyze"
    /\ req[r].file = <<>>
    /\ req[r].pc = "done"
    /\ Len(req[r].res) = 1

\* C20: once the output checks were made on bytes that are large enough,
\* reload, have a page and have no page of zero width or height, redactPDF
\* has returned them, whatever their page count; a count other than the
\* original's is logged and the request is not answered with an error.
C20_MismatchNeverFails ==
  \A r \in Reqs :
    LET q == req[r]
        out == q.outputBuffer[1]
        sound ==
          /\ out.len >= 200
          /\ out.loadable
          /\ Len(out.pages) > 0
          /\ \A i \in 1..Len(out.pages) : out.pages[i].width # 0 /\ out.pages[i].height # 0
    IN (q.checks # <<>> /\ sound) =>
         /\ q.ret = "returned"
         /\ q.error = <<>> \/ q.pc \in {"conv_catch_pdf", "conv_catch_readdir", "conv_catch_png",
                                        "catch", "done"}
         /\ Len(out.pages) # q.originalPageCount =>
              /\ \E k \in 1..Len(q.warnings) : q.warnings[k] = "Page count mismatch"
              /\ \A j \in 1..Len(q.res) :
                   q.res[j].status = 500 => Called(q, "convertPDFToImages")
\* the PDF-returning handler has sent bytes with fewer pages than the
\* upload, after the warning
C20_Witness ==
  \E r \in Reqs :
    /\ req[r].entry = "redactPdf"
    /\ req[r].pc = "done"
    /\ req[r].ret = "returned"
    /\ Len(req[r].res) = 1
    /\ req[r].res[1].status = 200
    /\ req[r].res[1].pdf # <<>>
    /\ Len(req[r].res[1].pdf[1].pages) < req[r].originalPageCount
    /\ req[r].warnings # <<>>

\* C17 as stated: a redact upload that begins with the PDF header and cannot
\* be parsed, or that is encrypted, is answered 500 with an error and a
\* message, the error of the malformed case being Invalid PDF File, Cannot
\* Read PDF or Processing Error.
C17_MalformedIsAnswered500 ==
  \A r \in Reqs :
    LET q == req[r] IN
    (/\ q.entry \in RedactHandlers
     /\ q.file # <<>>
     /\ q.file[1].size = "ok" /\ q.file[1].header
     /\ (q.file[1].strict # "ok" \/ ~q.file[1].pdfjs)
     /\ q.pc = "done") =>
      /\ q.res[1].status = 500
      /\ q.res[1].error # "" /\ q.res[1].message # <<>>
      /\ q.file[1].strict # "encrypted" =>
           q.res[1].error \in {"Invalid PDF File", "Cannot Read PDF", "Processing Error"}
\* C17: a redact upload that begins with the PDF header is answered 400 by
\* the pre-flight check when PDFDocument.load rejects it (PDF is Password
\* Protected for an encryption error, Invalid PDF File otherwise); when that
\* load succeeds and the extraction fails it is answered 500 with an error
\* and a message, the error being Invalid PDF File, Cannot Read PDF or
\* Processing Error.
C17_MalformedIs400Or500 ==
  \A r \in Reqs :
    LET q == req[r] IN
    (/\ q.entry \in RedactHandlers
     /\ q.file # <<>>
     /\ q.file[1].size = "ok" /\ q.file[1].header
     /\ q.pc = "done") =>
      /\ q.file[1].strict = "encrypted" =>
           /\ q.res[1].status = 400
           /\ q.res[1].error = "PDF is Password Protected"
           /\ q.res[1].message # <<>>
      /\ q.file[1].strict = "corrupt" =>
           /\ q.res[1].status = 400
           /\ q.res[1].error = "Invalid PDF File"
           /\ q.res[1].message # <<>>
      /\ (q.file[1].strict = "ok" /\ ~q.file[1].pdfjs) =>
           /\ q.res[1].status = 500
           /\ q.res[1].error \in {"Invalid PDF File", "Cannot Read PDF", "Processing Error"}
           /\ q.res[1].message # <<>>
\* a redact handler has answered 500 for an upload that passed the
\* pre-flight load and that pdfjs could not open
C17_Witness ==
  \E r \in Reqs :
    /\ req[r].entry \in RedactHandlers
    /\ req[r].file # <<>>
    /\ req[r].file[1].strict = "ok"
    /\ ~req[r].file[1].pdfjs
    /\ req[r].pc = "done"
    /\ req[r].res[1].status = 500

\* C15: the sequence findPhones returns holds no literal substring twice,
\* however many patterns match it and however often it occurs in the text.
C15_FindPhonesHasNoDuplicate ==
  (called # <<>> /\ called[1].fn = "findPhones") =>
    \A i \in 1..Len(called[1].value) : \A j \in 1..Len(called[1].value) :
      called[1].value[i] = called[1].value[j] => i = j
\* findPhones has returned one number for a text in which the number occurs
\* twice and is matched by two patterns
C15_Witness ==
  /\ called # <<>>
  /\ called[1].fn = "findPhones"
  /\ Len(called[1].value) = 1
  /\ Len(MatchAll(PHONE_PATTERNS[2], called[1].text)) = 2
  /\ Len(MatchAll(PHONE_PATTERNS[3], called[1].text)) = 2

\* C16: whatever calls were made before, a call of isEmail, isPhone,
\* containsPII, findEmails or findPhones on a text returns what the same
\* call returns as the very first call.
C16_ClassificationIsDeterministic ==
  called # <<>> =>
    called[1].value = Classify(called[1].fn, called[1].text, FreshIndex).value
\* isEmail has found the email of a text, after an earlier call
C16_Witness ==
  /\ called # <<>>
  /\ called[1].fn = "isEmail"
  /\ called[1].value = TRUE
  /\ Len(called[1].text) > Len(TokEmail)

\* C12: with NODE_ENV=production, no error response of the redact or the
\* analyze handler carries text of the exception that was caught.
C12_NoExceptionTextInProduction ==
  \A r \in Reqs :
    LET q == req[r] IN
    (q.entry \in Handlers /\ q.nodeEnv = <<"production">> /\ q.nextError = <<>>) =>
      \A k \in 1..Len(q.res) :
        q.res[k].status >= 400 => ~ExposesException(q.res[k])

\* C18: an upload the upload middleware rejects is answered 400 when the file
\* has an unexpected field name or is not a PDF, 400 or 413 when it is too
\* large, and neither the handler nor the extractor nor the redactor runs.
C18_RejectedUploadIs400Or413 ==
  \A r \in Reqs :
    LET q == req[r] IN
    (q.nextError # <<>> /\ q.nextError[1].message # <<MsgEndOfForm>>) =>
      /\ q.calls = <<>>
      /\ q.pc \in {"router_error", "app_error", "global_error", "done"}
      /\ q.pc = "done" =>
           /\ Len(q.res) = 1
           /\ q.res[1].status \in
                (IF q.nextError[1].code = "LIMIT_FILE_SIZE" THEN {400, 413} ELSE {400})

\* C21: the save strategies are tried in the order useObjectStreams false,
\* default, useObjectStreams true; a strategy is tried only after all before
\* it failed, none after one succeeded, and redactPDF fails with the save
\* error exactly when all three failed.
C21_SaveLadderInOrder ==
  \A r \in Reqs :
    LET q == req[r]
        IsSave(c) == c \in {"save1", "save2", "save3"}
        IsFailure(w) == w = "Strategy failed"
        saves == SelectSeq(q.calls, IsSave)
        failed == Len(SelectSeq(q.warnings, IsFailure))
    IN
    /\ saves = SubSeq(<<"save1", "save2", "save3">>, 1, Len(saves))
    /\ failed <= Len(saves)
    /\ Len(saves) <= failed + 1
    /\ (q.redactedPdfBytes # <<>>) <=> (Len(saves) = failed + 1)
    /\ (\E i \in 1..Len(q.error) : q.error[i] = MsgSave) <=> (failed = 3)
\* the third strategy has saved the document after two failures
C21_Witness ==
  \E r \in Reqs :
    /\ req[r].calls # <<>>
    /\ req[r].calls[Len(req[r].calls)] = "save3"
    /\ req[r].redactedPdfBytes # <<>>

\* C22: redactPDF tries the tolerant load only after the strict load failed
\* with an encryption error; when it and the page copy succeed the working
\* document holds every page of the original in order; when they fail
\* redactPDF fails with the password-protected message; any other failure of
\* the strict load fails at once.
C22_TolerantLoadOnlyAfterEncryptionError ==
  \A r \in Reqs :
    LET q == req[r]
        IsTolerant(c) == c = "tolerantLoad"
    IN
    /\ Len(SelectSeq(q.calls, IsTolerant)) <= 1
    /\ \A k \in 1..Len(q.calls) :
         q.calls[k] = "tolerantLoad" =>
           /\ k > 1
           /\ q.calls[k - 1] = "strictLoad"
           /\ q.file[1].strict = "encrypted"
    /\ (Called(q, "tolerantLoad") /\ q.file[1].tolerant) =>
         IF Len(q.file[1].pages) = 0
           THEN q.ret = "threw" /\ q.error = <<MsgRedact, MsgNoInputPages>>
           ELSE /\ Len(q.pdfDoc) = Len(q.file[1].pages)
                /\ \A i \in 1..Len(q.pdfDoc) :
                     /\ q.pdfDoc[i].width = q.file[1].pages[i].width
                     /\ q.pdfDoc[i].height = q.file[1].pages[i].height
                     /\ q.pdfDoc[i].ops =
                          [j \in 1..Len(q.file[1].pages[i].runs) |->
                             q.file[1].pages[i].runs[j].str]
    /\ (Called(q, "tolerantLoad") /\ ~q.file[1].tolerant) =>
         /\ q.ret = "threw"
         /\ q.error = <<MsgRedact, MsgProtected>>
         /\ q.pdfDoc = <<>>
    /\ (Called(q, "strictLoad") /\ q.file[1].strict = "corrupt") =>
         /\ ~Called(q, "tolerantLoad")
         /\ q.ret = "threw"
         /\ q.error = <<MsgRedact>> \o LoadError(q.file[1])
\* the tolerant load has recovered a protected document of two unlike pages
C22_Witness ==
  \E r \in Reqs :
    /\ Called(req[r], "tolerantLoad")
    /\ req[r].file[1].tolerant
    /\ Len(req[r].pdfDoc) = 2
    /\ req[r].pdfDoc[1].ops # req[r].pdfDoc[2].ops

\* C23: when all save strategies failed and when the output is under 200
\* bytes, the client is answered under one and the same category, the one
\* for a failed redaction, never one that blames the upload.
C23_SaveAndSizeFailuresShareCategory ==
  \A r \in Reqs :
    LET q == req[r] IN
    (/\ q.entry \in RedactHandlers
     /\ q.pc = "done"
     /\ \E i \in 1..Len(q.error) : q.error[i] \in {MsgSave, MsgTooSmall}) =>
      /\ Len(q.res) = 1
      /\ q.res[1].status = 500
      /\ q.res[1].error = "Processing Error"

\* C24: the working document of redactPDF keeps its pages, their order and
\* their sizes; every page holds one rectangle per item of its
\* PageRedactionSet, in the items' order, and a page without a set holds none.
C24_OneRectanglePerItem ==
  \A r \in Reqs :
    LET q == req[r]
        SetsOf(i) == { k \in 1..Len(q.piiItems) : q.piiItems[k].pageNumber = i }
    IN
    q.pdfDoc # <<>> =>
      /\ Len(q.pdfDoc) = Len(q.file[1].pages)
      /\ \A i \in 1..Len(q.pdfDoc) :
           /\ q.pdfDoc[i].width = q.file[1].pages[i].width
           /\ q.pdfDoc[i].height = q.file[1].pages[i].height
           /\ Cardinality(SetsOf(i)) <= 1
           /\ SetsOf(i) = {} => q.pdfDoc[i].rects = <<>>
           /\ \A k \in SetsOf(i) :
                /\ Len(q.pdfDoc[i].rects) = Len(q.piiItems[k].items)
                /\ \A j \in 1..Len(q.piiItems[k].items) :
                     q.pdfDoc[i].rects[j] =
                       Rectangle(q.piiItems[k].items[j], q.pdfDoc[i].height)
\* a two-page document with no rectangle on page 1 and three on page 2
C24_Witness ==
  \E r \in Reqs :
    /\ Len(req[r].pdfDoc) = 2
    /\ req[r].pdfDoc[1].rects = <<>>
    /\ Len(req[r].pdfDoc[2].rects) = 3
    /\ Len(req[r].piiItems) = 1

\* C25: the rectangles drawn on a page are, in order, those of the page's
\* runs that hold a match: for a run at native origin (tx, ty) with width w
\* and height h, the corner (tx - 2, ty - 2), width w + 4 and height h + 4.
C25_RectangleInvertsTheFlip ==
  \A r \in Reqs :
    LET q == req[r] IN
    q.pdfDoc # <<>> =>
      \A i \in 1..Len(q.pdfDoc) :
        LET runs == q.file[1].pages[i].runs
            NativeBox(run) == [x |-> run.tx - 2, y |-> run.ty - 2,
                               width |-> run.width + 4, height |-> run.height + 4]
        IN /\ \A j \in 1..Len(q.pdfDoc[i].rects) :
                \E n \in 1..Len(runs) : q.pdfDoc[i].rects[j] = NativeBox(runs[n])
           /\ \A k \in 1..Len(q.piiItems) :
                q.piiItems[k].pageNumber = i =>
                  \A j \in 1..Len(q.piiItems[k].items) :
                    \E n \in 1..Len(runs) :
                      /\ runs[n].tx = q.piiItems[k].items[j].x
                      /\ runs[n].ty = q.pdfDoc[i].height - q.piiItems[k].items[j].y
                                        - q.piiItems[k].items[j].height
                      /\ q.pdfDoc[i].rects[j] = NativeBox(runs[n])
\* the phone run at (5, 20), 12 by 2, on a page 50 high has its rectangle
C25_Witness ==
  \E r \in Reqs :
    /\ Len(req[r].pdfDoc) >= 1
    /\ req[r].pdfDoc[1].height = 50
    /\ req[r].pdfDoc[1].rects = <<[x |-> 3, y |-> 18, width |-> 16, height |-> 6]>>

\* C26: a run whose trimmed text is empty or holds no PII yields no match;
\* any other run yields one email match per element of findEmails and then
\* one phone match per element of findPhones, each with the run's box
\* {x: tx, y: pageHeight - ty - height, width, height}; the runs' matches
\* follow each other in the order of the runs.
C26_MatchesOfARun ==
  \A r \in Reqs :
    LET q == req[r] IN
    q.pc = "extracted" =>
      \A i \in 1..Len(q.file[1].pages) :
        LET page == q.file[1].pages[i]
            runs == page.runs
            Text(n) == Trim(runs[n].str)
            Emits(n) == Text(n) # <<>> /\ containsPII(Text(n))
            Count(n) == IF Emits(n)
                          THEN Len(findEmails(Text(n))) + Len(findPhones(Text(n)))
                          ELSE 0
            RECURSIVE Start(_)
            Start(n) == IF n = 1 THEN 0 ELSE Start(n - 1) + Count(n - 1)
            sets == { k \in 1..Len(q.piiItems) : q.piiItems[k].pageNumber = i }
            items == IF sets = {} THEN <<>>
                     ELSE q.piiItems[CHOOSE k \in sets : TRUE].items
            Box(n, text, type) ==
              [text |-> text, type |-> type, x |-> runs[n].tx,
               y |-> page.height - runs[n].ty - runs[n].height,
               width |-> runs[n].width, height |-> runs[n].height]
        IN /\ Len(items) = Start(Len(runs) + 1)
           /\ \A n \in 1..Len(runs) :
                Emits(n) =>
                  LET emails == findEmails(Text(n))
                      phones == findPhones(Text(n))
                  IN /\ \A e \in 1..Len(emails) :
                          items[Start(n) + e] = Box(n, emails[e], "email")
                     /\ \A p \in 1..Len(phones) :
                          items[Start(n) + Len(emails) + p] = Box(n, phones[p], "phone")
\* the run holding an address and a number has yielded the email match and
\* then the phone match, followed by the next run's email
C26_Witness ==
  \E r \in Reqs :
    /\ req[r].pc = "extracted"
    /\ Len(req[r].piiItems) = 1
    /\ Len(req[r].piiItems[1].items) = 3
    /\ req[r].piiItems[1].items[1].type = "email"
    /\ req[r].piiItems[1].items[2].type = "phone"
    /\ req[r].piiItems[1].items[2].width = RunBoth.width
    /\ req[r].piiItems[1].items[3].width = RunEmail.width

\* C27: findPhones returns the matches of pattern 1 on the whole text from
\* left to right, then those of pattern 2, and so on to pattern 5, each
\* substring standing where it was first seen.
C27_FirstSeenWins ==
  (called # <<>>) =>
    ((called[1].fn = "findPhones") =>
       LET text == called[1].text
           value == called[1].value
           all == MatchAll(PHONE_PATTERNS[1], text) \o MatchAll(PHONE_PATTERNS[2], text)
                    \o MatchAll(PHONE_PATTERNS[3], text) \o MatchAll(PHONE_PATTERNS[4], text)
                    \o MatchAll(PHONE_PATTERNS[5], text)
           FirstAt(s) == CHOOSE k \in 1..Len(all) :
                           all[k] = s /\ \A m \in 1..(k - 1) : all[m] # s
       IN /\ \A k \in 1..Len(all) : \E i \in 1..Len(value) : value[i] = all[k]
          /\ \A i \in 1..Len(value) : \E k \in 1..Len(all) : all[k] = value[i]
          /\ \A i \in 1..Len(value) : \A j \in 1..Len(value) :
               i < j => FirstAt(value[i]) < FirstAt(value[j]))
\* the match of the last pattern stands last although it begins in the text
\* before the second match of pattern 2
C27_Witness ==
  /\ called # <<>>
  /\ called[1].fn = "findPhones"
  /\ called[1].text = TokPhone \o TokCompact
  /\ Len(called[1].value) = 3
  /\ called[1].value[2] = TokCompact
  /\ called[1].value[2] = MatchAll(PHONE_PATTERNS[2], called[1].text)[2]
  /\ called[1].value[3] = MatchAll(PHONE_PATTERNS[5], called[1].text)[1]
  /\ Len(called[1].value[3]) > Len(TokCompact)

\* C28: in a response of the analyze handler that reports an analysis, found
\* is true exactly when statistics.totalRedactions is greater than 0, and
\* exactly when details is not empty.
C28_FoundIffSomethingCounted ==
  \A r \in Reqs :
    LET q == req[r] IN
    q.entry = "analyze" =>
      \A k \in 1..Len(q.res) :
        q.res[k].status = 200 =>
          /\ q.res[k].stats # <<>>
          /\ q.res[k].found <=> (q.res[k].stats[1].totalRedactions > 0)
          /\ q.res[k].found <=> (q.res[k].details # <<>>)
\* the analyze handler has reported the three matches of a two-page document
C28_Witness ==
  \E r \in Reqs :
    /\ req[r].entry = "analyze"
    /\ Len(req[r].res) = 1
    /\ req[r].res[1].found
    /\ req[r].res[1].stats[1].totalRedactions = 3
    /\ Len(req[r].file[1].pages) = 2
    /\ Len(req[r].res[1].details) = 1

\* C29: a redact handler calls redactPDF only on bytes the pre-flight strict
\* load accepted, so on this path the strict load of redactPDF succeeds and
\* the tolerant load with the page copy never runs.
C29_HandlersNeverReachTolerantLoad ==
  \A r \in Reqs :
    LET q == req[r] IN
    (q.entry \in RedactHandlers /\ Called(q, "redactPDF")) =>
      /\ q.file[1].size = "ok"
      /\ q.file[1].header
      /\ q.file[1].strict = "ok"
      /\ \E k \in 1..Len(q.calls) :
           /\ q.calls[k] = "checkPDFEncryption"
           /\ \A m \in 1..k : q.calls[m] # "redactPDF"
      /\ ~Called(q, "tolerantLoad")
      /\ q.pc # "tolerant"
      /\ \A i \in 1..Len(q.error) : q.error[i] \notin {MsgProtected, LibEncrypted}
\* a redact handler's redactPDF has made its strict load and gone on
C29_Witness ==
  \E r \in Reqs :
    /\ req[r].entry \in RedactHandlers
    /\ Called(req[r], "redactPDF")
    /\ Called(req[r], "strictLoad")
    /\ req[r].pc = "save"

\* C30: a request served by a redact or the analyze handler never has more
\* than one response, and it eventually has exactly one, whichever way the
\* library calls end.
C30_ExactlyOneResponse ==
  /\ [](\A r \in Reqs : req[r].entry \in Handlers => Len(req[r].res) <= 1)
  /\ \A r \in Reqs :
       (req[r].entry \in Handlers) ~> (req[r].pc = "done" /\ Len(req[r].res) = 1)
\* the image-returning handler has answered 500 after the conversion failed
C30_Witness ==
  \E r \in Reqs :
    /\ req[r].entry = "redactImages"
    /\ req[r].pc = "done"
    /\ Len(req[r].res) = 1
    /\ req[r].res[1].status = 500
    /\ \E i \in 1..Len(req[r].error) : req[r].error[i] = MsgConvert
====
